---- MODULE Spec2Model ----
(***************************************************************************)
(* The CDR codec (eprosima::fastcdr::Cdr as vendored in cyberRT-x86) as a  *)
(* state machine.  One Cdr object works on one FastBuffer; every public    *)
(* member function is one action, translated from its body.                *)
(*                                                                         *)
(* Positions are byte offsets from the buffer base (FastBuffer iterators   *)
(* are rebased after a grow, so an offset is what an iterator denotes).    *)
(* A primitive value is the tuple of its bytes as they lie in host memory  *)
(* (dst[0] .. dst[w-1] of the source), so byte swapping is observable.     *)
(***************************************************************************)
EXTENDS Integers, Sequences, FiniteSets, TLC

(***************************************************************************)
(* Bounds of the model.                                                    *)
(***************************************************************************)
\* calls made before the call under observation (see Next)
MaxSetup == 1
\* largest element count of an array call
MaxCount == 2
\* primitives written after an encapsulation
MaxWrites == 2
\* getState / changeEndianness / setState calls before an encapsulation is written
MaxHeaderSetup == 3

(***************************************************************************)
(* Enumerators and constants.                                              *)
(***************************************************************************)
BIG_ENDIANNESS == 0
LITTLE_ENDIANNESS == 1
DEFAULT_ENDIAN == LITTLE_ENDIANNESS
DDS_CDR_WITHOUT_PL == 0
DDS_CDR_WITH_PL == 2
ALIGNMENT_LONG_DOUBLE == 8

CdrTypes == {"CORBA_CDR", "DDS_CDR"}
Endiannesses == {BIG_ENDIANNESS, LITTLE_ENDIANNESS}

\* an indeterminate byte: memory obtained by a grow and never written, or
\* bytes copied from outside the object the code was given
Indet == -1
\* the values an indeterminate byte may turn out to hold when it is read
FillBytes == {0, 2}

(***************************************************************************)
(* Byte helpers.                                                           *)
(***************************************************************************)
Reverse(v) == [i \in 1..Len(v) |-> v[Len(v) + 1 - i]]

\* host (little-endian) memory image of an unsigned number of w bytes
RECURSIVE ToBytes(_, _)
ToBytes(n, w) == IF w = 0 THEN <<>> ELSE <<n % 256>> \o ToBytes(n \div 256, w - 1)

\* the unsigned number a host memory image of at most 4 bytes denotes;
\* anything of 2^31 or more is reported as 2^31 - 1, which is still larger
\* than every buffer of the model
RECURSIVE FromBytes(_)
FromBytes(v) ==
    IF Len(v) = 0 THEN 0
    ELSE IF Len(v) = 4 /\ v[4] >= 128 THEN 2147483647
    ELSE v[1] + 256 * FromBytes(Tail(v))

Pattern(w, k) == [i \in 1..w |-> 16 * k + i]

Max(a, b) == IF a >= b THEN a ELSE b

(***************************************************************************)
(* Primitive types: sizeof and the size handed to alignment().  float and  *)
(* double share the text of the int32_t and int64_t functions.             *)
(***************************************************************************)
PrimTypes == {"int16", "int32", "int64", "float", "double", "ldouble"}

SizeOf(t) ==
    CASE t = "char" -> 1
      [] t = "bool" -> 1
      [] t = "int16" -> 2
      [] t = "int32" -> 4
      [] t = "float" -> 4
      [] t = "int64" -> 8
      [] t = "double" -> 8
      [] t = "ldouble" -> 16

\* AlignOf with the long double exception forgotten
AlignOf_Width(t) == SizeOf(t)

AlignOf(t) == IF t = "ldouble" THEN ALIGNMENT_LONG_DOUBLE ELSE SizeOf(t)

\* the values given to the serialize calls: one bit pattern per type, its
\* bytes all different
PrimValues(t) == {Pattern(SizeOf(t), 1)}

(***************************************************************************)
(* State.                                                                  *)
(***************************************************************************)
VARIABLES
    cdr,          \* the Cdr object's fields
    cdrBuffer,    \* the FastBuffer: [mem, internal]
    savedState,   \* <<the Cdr::state a caller holds from getState()>>, or <<>>
    call,         \* the last public call: its name, arguments, outcome and pre-state
    ncalls,       \* public calls made so far
    written       \* round trips: <<the serialize call whose bytes are read back>>

cdrVars == <<cdr, cdrBuffer, savedState, call, ncalls, written>>

VARIABLES
    shm,          \* the shared-memory objects and the name of the channel
    seg,          \* each process's PosixSegment and where it is in a call
    chunk,        \* the Chunk: header_ and body_
    threads,      \* where each thread is in a call on the Chunk
    writer        \* the RecordFileWriter, its file and its last WriteSection

shmVars == <<shm, seg>>
recordVars == <<chunk, threads, writer>>
vars == <<cdr, cdrBuffer, savedState, call, ncalls, written, shm, seg, chunk, threads, writer>>

\* FastBuffer(): an empty buffer the object owns and may grow, for as long as
\* the allocator gives memory (avail: the most it will ever give).
InternalBuffer(avail) == [mem |-> <<>>, internal |-> TRUE, avail |-> avail]
\* FastBuffer(char*, size_t): a caller's region, never grown.
UserBuffer(bytes) == [mem |-> bytes, internal |-> FALSE, avail |-> Len(bytes)]

Zeros(n) == [i \in 1..n |-> 0]

SeedBuffers ==
    { <<0, 0>>, <<2>>, <<0, 2, 0>>, <<1, 0, 0, 0>>,
      <<0, 3, 239, 190, 52, 18>>,
      <<3, 0, 0, 0, 104, 105, 0>>,
      <<0, 0, 0, 3, 104, 105, 1>>,
      <<1, 0, 0, 0, 1, 0, 0, 0, 0>>,
      Zeros(24) }

\* what the allocator has for an internal buffer: enough for every call, or
\* so little that a grow is refused part-way through a call
Avails == {4, 64 * (MaxSetup + MaxCount)}

\* Cdr::Cdr
NewCdr(buffer, endianness, cdrType) ==
    [ m_cdrType |-> cdrType,
      m_plFlag |-> DDS_CDR_WITHOUT_PL,
      m_options |-> 0,
      m_endianness |-> endianness,
      m_swapBytes |-> (endianness # DEFAULT_ENDIAN),
      m_lastDataSize |-> 0,
      m_currentPosition |-> 0,
      m_alignPosition |-> 0,
      m_lastPosition |-> Len(buffer.mem) ]

NoCall ==
    [ op |-> "new", t |-> "none", bo |-> <<>>, arg |-> <<>>, ex |-> "none",
      out |-> <<>>, pad |-> 0, start |-> 0, sw |-> FALSE,
      pre |-> <<>>, preBuf |-> <<>> ]

\* the processes that hold a PosixSegment of the one channel
Procs == {1, 2}

nullptr == 0
MAP_FAILED == -1

\* PosixSegment::PosixSegment: the members, then where the process is in a
\* call (pc, fd, st_size) and what its last call did
NewSegment ==
    [ init_ |-> FALSE, managed_shm_ |-> nullptr, state_ |-> nullptr, blocks_ |-> nullptr,
      pc |-> "idle", fd |-> 0, st_size |-> 0,
      op |-> "none", ret |-> <<>>, pre |-> <<>>, created |-> 0, attached |-> FALSE,
      saw |-> FALSE, sys |-> FALSE, unmapped |-> <<>>, incs |-> 0, calls |-> 0 ]

\* no shared-memory object of the channel's name, no call made
SegmentIdle ==
    /\ shm = [name |-> 0, objs |-> <<>>]
    /\ seg = [p \in Procs |-> NewSegment]

\* the threads that share one Chunk
Threads == {1, 2}

\* Chunk::Chunk, which calls clear(); mutex_ is the thread holding it, or 0;
\* added counts the add() calls completed since the last clear()
NewChunk ==
    [ begin_time |-> 0, end_time |-> 0, message_number |-> 0, raw_size |-> 0,
      body_ |-> <<>>, mutex_ |-> 0, added |-> 0, calls |-> 0 ]

NoThread == [pc |-> "idle", message |-> <<>>, number |-> 0, out |-> <<>>]

\* RecordFileWriter after Open: the file offset, header_.size, and what the
\* last WriteSection was given and did
NewWriter ==
    [ position |-> 0, size |-> 0,
      T |-> "none", ByteSizeLong |-> 0, ret |-> <<>>, pre |-> 0,
      section |-> 0, message |-> 0, blank |-> 0, calls |-> 0 ]

RecordIdle ==
    /\ chunk = NewChunk
    /\ threads = [t \in Threads |-> NoThread]
    /\ writer = NewWriter

Init ==
    /\ cdrBuffer \in {InternalBuffer(a) : a \in Avails} \cup {UserBuffer(b) : b \in SeedBuffers}
    /\ \E e \in Endiannesses, ty \in CdrTypes : cdr = NewCdr(cdrBuffer, e, ty)
    /\ savedState = <<>>
    /\ call = NoCall
    /\ ncalls = 0
    /\ written = <<>>
    /\ SegmentIdle
    /\ RecordIdle

(***************************************************************************)
(* Results of a member function: the object and buffer it leaves behind,   *)
(* the exception it raised ("none" when it returned), the value it handed  *)
(* back, and for a primitive the padding skipped and the payload position. *)
(***************************************************************************)
Result(c, b, ex, out, pad, start) ==
    [c |-> c, b |-> b, ex |-> ex, out |-> out, pad |-> pad, start |-> start,
     sw |-> c.m_swapBytes]

Throw(s, ex) == Result(s.c, s.b, ex, <<>>, 0, 0)

\* FastBuffer iterator writes/reads at a position
WriteAt(mem, p, bytes) ==
    [i \in 1..Len(mem) |-> IF i > p /\ i <= p + Len(bytes) THEN bytes[i - p] ELSE mem[i]]

ReadAt(mem, p, n) == [i \in 1..n |-> mem[p + i]]

\* FastBuffer::resize
BufferResize(b, minSizeInc) ==
    IF b.internal /\ Len(b.mem) + minSizeInc <= b.avail
    THEN [ok |-> TRUE,
          b |-> [b EXCEPT !.mem = b.mem \o [i \in 1..minSizeInc |-> Indet]]]
    ELSE [ok |-> FALSE, b |-> b]

\* resize leaving m_lastPosition where it was
resize_StaleEnd(s, minSizeInc) ==
    LET r == BufferResize(s.b, minSizeInc)
    IN  IF r.ok THEN [ok |-> TRUE, b |-> r.b, c |-> s.c]
        ELSE [ok |-> FALSE, b |-> s.b, c |-> s.c]

\* Cdr::resize
resize(s, minSizeInc) ==
    LET r == BufferResize(s.b, minSizeInc)
    IN  IF r.ok
        THEN [ok |-> TRUE, b |-> r.b,
              c |-> [s.c EXCEPT !.m_lastPosition = Len(r.b.mem)]]
        ELSE [ok |-> FALSE, b |-> s.b, c |-> s.c]

\* Cdr::alignment
alignment(c, dataSize) ==
    (dataSize - ((c.m_currentPosition - c.m_alignPosition) % dataSize)) % dataSize

\* Cdr::state::state(const Cdr&)
StateOf(c) ==
    [ m_currentPosition |-> c.m_currentPosition,
      m_alignPosition |-> c.m_alignPosition,
      m_swapBytes |-> c.m_swapBytes,
      m_lastDataSize |-> c.m_lastDataSize ]

\* Cdr::setState
setState(c, st) ==
    [c EXCEPT !.m_currentPosition = st.m_currentPosition,
              !.m_alignPosition = st.m_alignPosition,
              !.m_swapBytes = st.m_swapBytes,
              !.m_lastDataSize = st.m_lastDataSize]

(***************************************************************************)
(* Primitives.                                                             *)
(***************************************************************************)
\* NotEnoughMemory with m_lastDataSize saved ahead of the space check
NotEnoughMemory_Dirty(s) == Throw([s EXCEPT !.c.m_lastDataSize = 1], "NotEnoughMemory")

\* the throw that ends a primitive whose space check failed
NotEnoughMemory(s) == Throw(s, "NotEnoughMemory")

\* serialize with makeAlign(align) left out
serialize_NoAlign(s, t, v) ==
    LET align == alignment(s.c, AlignOf(t))
        sizeAligned == SizeOf(t) + align
        fits == (s.c.m_lastPosition - s.c.m_currentPosition) >= sizeAligned
        g == IF fits THEN [ok |-> TRUE, b |-> s.b, c |-> s.c] ELSE resize(s, sizeAligned)
    IN  IF g.ok
        THEN LET p == g.c.m_currentPosition
                 wire == IF g.c.m_swapBytes THEN Reverse(v) ELSE v
             IN  Result([g.c EXCEPT !.m_lastDataSize = SizeOf(t),
                                    !.m_currentPosition = p + SizeOf(t)],
                        [g.b EXCEPT !.mem = WriteAt(g.b.mem, p, wire)],
                        "none", <<>>, align, p)
        ELSE NotEnoughMemory(s)

\* Cdr::serialize(const char | int16_t | int32_t | int64_t | float | double |
\* long double): v is the value's host memory image
serialize(s, t, v) ==
    LET align == alignment(s.c, AlignOf(t))
        sizeAligned == SizeOf(t) + align
        fits == (s.c.m_lastPosition - s.c.m_currentPosition) >= sizeAligned
        g == IF fits THEN [ok |-> TRUE, b |-> s.b, c |-> s.c] ELSE resize(s, sizeAligned)
    IN  IF g.ok
        THEN LET p == g.c.m_currentPosition + align
                 wire == IF g.c.m_swapBytes THEN Reverse(v) ELSE v
             IN  Result([g.c EXCEPT !.m_lastDataSize = SizeOf(t),
                                    !.m_currentPosition = p + SizeOf(t)],
                        [g.b EXCEPT !.mem = WriteAt(g.b.mem, p, wire)],
                        "none", <<>>, align, p)
        ELSE NotEnoughMemory(s)

\* Cdr::serialize(const bool)
serializeBool(s, bool_t) ==
    LET fits == (s.c.m_lastPosition - s.c.m_currentPosition) >= 1
        g == IF fits THEN [ok |-> TRUE, b |-> s.b, c |-> s.c] ELSE resize(s, 1)
        value == IF bool_t THEN 1 ELSE 0
    IN  IF g.ok
        THEN LET p == g.c.m_currentPosition
             IN  Result([g.c EXCEPT !.m_lastDataSize = 1, !.m_currentPosition = p + 1],
                        [g.b EXCEPT !.mem = WriteAt(g.b.mem, p, <<value>>)],
                        "none", <<>>, 0, p)
        ELSE NotEnoughMemory(s)

\* bytes the byte-swapping branch of Cdr::deserialize(T&) takes from the stream
SwappedReadSize(t) == IF t = "ldouble" THEN 8 ELSE SizeOf(t)

\* deserialize asking for a grow when the bytes are not there
deserialize_Growing(s, t) ==
    LET align == alignment(s.c, AlignOf(t))
        sizeAligned == SizeOf(t) + align
        fits == (s.c.m_lastPosition - s.c.m_currentPosition) >= sizeAligned
        g == IF fits THEN [ok |-> TRUE, b |-> s.b, c |-> s.c] ELSE resize(s, sizeAligned)
    IN  IF g.ok
        THEN LET p == g.c.m_currentPosition + align
                 raw == ReadAt(g.b.mem, p, SizeOf(t))
             IN  Result([g.c EXCEPT !.m_lastDataSize = SizeOf(t),
                                    !.m_currentPosition = p + SizeOf(t)],
                        g.b, "none", IF g.c.m_swapBytes THEN Reverse(raw) ELSE raw, align, p)
        ELSE NotEnoughMemory(s)

\* Cdr::deserialize(char& | int16_t& | int32_t& | int64_t& | float& | double& |
\* long double&).  The value handed back is the destination's memory image;
\* bytes of the destination the function does not store to stay what they
\* were, which the caller need not have initialised.
deserialize(s, t) ==
    LET align == alignment(s.c, AlignOf(t))
        sizeAligned == SizeOf(t) + align
    IN  IF (s.c.m_lastPosition - s.c.m_currentPosition) >= sizeAligned
        THEN LET p == s.c.m_currentPosition + align
                 n == IF s.c.m_swapBytes THEN SwappedReadSize(t) ELSE SizeOf(t)
                 raw == ReadAt(s.b.mem, p, n)
                 value == IF s.c.m_swapBytes
                          THEN Reverse(raw) \o [i \in 1..(SizeOf(t) - n) |-> Indet]
                          ELSE raw
             IN  Result([s.c EXCEPT !.m_lastDataSize = SizeOf(t),
                                    !.m_currentPosition = p + n],
                        s.b, "none", value, align, p)
        ELSE NotEnoughMemory(s)

\* Cdr::deserialize(bool&)
deserializeBool(s) ==
    IF (s.c.m_lastPosition - s.c.m_currentPosition) >= 1
    THEN LET p == s.c.m_currentPosition
             value == s.b.mem[p + 1]
             c1 == [s.c EXCEPT !.m_lastDataSize = 1, !.m_currentPosition = p + 1]
         IN  IF value = 1 THEN Result(c1, s.b, "none", <<TRUE>>, 0, p)
             ELSE IF value = 0 THEN Result(c1, s.b, "none", <<FALSE>>, 0, p)
             ELSE Result(c1, s.b, "BadParam", <<>>, 0, p)
    ELSE NotEnoughMemory(s)

(***************************************************************************)
(* The forms with an Endianness argument.                                  *)
(***************************************************************************)
\* m_swapBytes for the duration of the call
OverrideSwap(c, endianness) ==
    (c.m_swapBytes /\ (c.m_endianness = endianness))
        \/ (~c.m_swapBytes /\ (c.m_endianness # endianness))

\* "m_swapBytes = auxSwap" after the inner call returned
OverrideReturn(r, auxSwap) == [r EXCEPT !.c.m_swapBytes = auxSwap]

\* OverrideCatch re-raising without putting m_swapBytes back
OverrideCatch_Keep(r, auxSwap) == r

\* catch(Exception&): "m_swapBytes = auxSwap; ex.raise()"
OverrideCatch(r, auxSwap) == [r EXCEPT !.c.m_swapBytes = auxSwap]

\* Cdr::serialize(T, Endianness), Cdr::deserialize(T&, Endianness),
\* Cdr::serializeArray(const T*, size_t, Endianness) and
\* Cdr::deserializeArray(T*, size_t, Endianness) up to the call of the
\* default form: the object the default form runs on
EnterEndianness(s, endianness) ==
    [s EXCEPT !.c.m_swapBytes = OverrideSwap(s.c, endianness)]

\* the same functions from the default form's outcome r onwards; s is the
\* object at entry
WithEndianness(s, endianness, r) ==
    LET auxSwap == s.c.m_swapBytes
        r1 == [r EXCEPT !.sw = OverrideSwap(s.c, endianness)]
    IN  IF r1.ex = "none" THEN OverrideReturn(r1, auxSwap) ELSE OverrideCatch(r1, auxSwap)

\* a call in either form: bo is <<>> for the form without an Endianness
\* argument and <<endianness>> for the form with one.  EnterForm is the
\* object the default form's body runs on, InForm the call's outcome given
\* the outcome r of that body
EnterForm(s, bo) ==
    IF bo = <<>> THEN s ELSE EnterEndianness(s, bo[1])

InForm(s, bo, r) ==
    IF bo = <<>> THEN r ELSE WithEndianness(s, bo[1], r)

Forms == {<<>>} \cup {<<e>> : e \in Endiannesses}

(***************************************************************************)
(* Strings.  A const char* argument is [isNull, chars]: a null pointer, or  *)
(* the characters before the terminator; the caller's memory holds them    *)
(* followed by a 0 byte.                                                   *)
(***************************************************************************)
NullString == [isNull |-> TRUE, chars |-> <<>>]
StringOf(chars) == [isNull |-> FALSE, chars |-> chars]
CString(string_t) == string_t.chars \o <<0>>

\* serializeStringBody leaving the object as the failed payload step found it
serializeStringBody_NoRestore(s, string_t, length) ==
    LET r1 == serialize(s, "int32", ToBytes(length, 4))
    IN  IF r1.ex # "none" \/ length = 0 THEN r1
        ELSE LET fits == (r1.c.m_lastPosition - r1.c.m_currentPosition) >= length
                 g == IF fits THEN [ok |-> TRUE, b |-> r1.b, c |-> r1.c]
                      ELSE resize(r1, length)
             IN  IF g.ok
                 THEN LET p == g.c.m_currentPosition
                      IN  Result([g.c EXCEPT !.m_lastDataSize = 1,
                                             !.m_currentPosition = p + length],
                                 [g.b EXCEPT !.mem =
                                     WriteAt(g.b.mem, p, SubSeq(CString(string_t), 1, length))],
                                 "none", <<>>, r1.pad, r1.start)
                 ELSE Result(r1.c, r1.b, "NotEnoughMemory", <<>>, 0, 0)

\* the part of Cdr::serialize(const char*) and of
\* Cdr::serialize(const char*, size_t) after length has been computed
serializeStringBody(s, string_t, length) ==
    IF length > 0
    THEN LET state == StateOf(s.c)
             r1 == serialize(s, "int32", ToBytes(length, 4))
         IN  IF r1.ex # "none" THEN r1
             ELSE LET fits == (r1.c.m_lastPosition - r1.c.m_currentPosition) >= length
                      g == IF fits THEN [ok |-> TRUE, b |-> r1.b, c |-> r1.c]
                           ELSE resize(r1, length)
                  IN  IF g.ok
                      THEN LET p == g.c.m_currentPosition
                           IN  Result([g.c EXCEPT !.m_lastDataSize = 1,
                                                  !.m_currentPosition = p + length],
                                      [g.b EXCEPT !.mem =
                                          WriteAt(g.b.mem, p, SubSeq(CString(string_t), 1, length))],
                                      "none", <<>>, r1.pad, r1.start)
                      ELSE Result(setState(r1.c, state), r1.b, "NotEnoughMemory", <<>>, 0, 0)
    ELSE serialize(s, "int32", ToBytes(length, 4))

\* serializeString counting the characters without the terminator
serializeString_NoTerminator(s, string_t) ==
    serializeStringBody(s, string_t, IF ~string_t.isNull THEN Len(string_t.chars) ELSE 0)

\* Cdr::serialize(const char*)
serializeString(s, string_t) ==
    serializeStringBody(s, string_t, IF ~string_t.isNull THEN Len(string_t.chars) + 1 ELSE 0)

\* Cdr::serialize(const char*, size_t)
serializeStringN(s, string_t, str_length) ==
    serializeStringBody(s, string_t, IF ~string_t.isNull THEN str_length + 1 ELSE 0)

\* deserializeString setting m_lastDataSize = 1 on every path that returns
deserializeString_AlwaysOne(s) ==
    LET state == StateOf(s.c)
        r1 == deserialize(s, "int32")
        length == FromBytes(r1.out)
    IN  IF r1.ex # "none" THEN r1
        ELSE IF (r1.c.m_lastPosition - r1.c.m_currentPosition) >= length
        THEN Result([r1.c EXCEPT !.m_lastDataSize = 1,
                                 !.m_currentPosition = @ + length],
                    r1.b, "none", <<>>, r1.pad, r1.start)
        ELSE Result(setState(r1.c, state), r1.b, "NotEnoughMemory", <<>>, 0, 0)

\* Cdr::deserialize(char*&): hands back the calloc'ed copy, <<>> for NULL
deserializeString(s) ==
    LET state == StateOf(s.c)
        r1 == deserialize(s, "int32")
        length == FromBytes(r1.out)
    IN  IF r1.ex # "none" THEN r1
        ELSE IF length = 0 THEN Result(r1.c, r1.b, "none", <<>>, r1.pad, r1.start)
        ELSE IF (r1.c.m_lastPosition - r1.c.m_currentPosition) >= length
        THEN LET p == r1.c.m_currentPosition
                 bytes == ReadAt(r1.b.mem, p, length)
             IN  Result([r1.c EXCEPT !.m_lastDataSize = 1, !.m_currentPosition = p + length],
                        r1.b, "none",
                        IF bytes[length] = 0 THEN bytes ELSE bytes \o <<0>>,
                        r1.pad, r1.start)
        ELSE Result(setState(r1.c, state), r1.b, "NotEnoughMemory", <<>>, 0, 0)

\* readString reporting the stored length whatever the last byte is
readString_KeepLength(s) ==
    LET state == StateOf(s.c)
        r1 == deserialize(s, "int32")
        length == FromBytes(r1.out)
    IN  IF r1.ex # "none" THEN r1
        ELSE IF length = 0
        THEN Result(r1.c, r1.b, "none", [ptr |-> -1, length |-> 0], r1.pad, r1.start)
        ELSE IF (r1.c.m_lastPosition - r1.c.m_currentPosition) >= length
        THEN LET p == r1.c.m_currentPosition
             IN  Result([r1.c EXCEPT !.m_lastDataSize = 1, !.m_currentPosition = p + length],
                        r1.b, "none", [ptr |-> p, length |-> length], r1.pad, r1.start)
        ELSE Result(setState(r1.c, state), r1.b, "NotEnoughMemory", <<>>, 0, 0)

\* Cdr::readString: hands back the position pointed to (-1 for "") and
\* the length reported
readString(s) ==
    LET state == StateOf(s.c)
        r1 == deserialize(s, "int32")
        length == FromBytes(r1.out)
    IN  IF r1.ex # "none" THEN r1
        ELSE IF length = 0
        THEN Result(r1.c, r1.b, "none", [ptr |-> -1, length |-> 0], r1.pad, r1.start)
        ELSE IF (r1.c.m_lastPosition - r1.c.m_currentPosition) >= length
        THEN LET p == r1.c.m_currentPosition
             IN  Result([r1.c EXCEPT !.m_lastDataSize = 1, !.m_currentPosition = p + length],
                        r1.b, "none",
                        [ptr |-> p,
                         length |-> IF r1.b.mem[p + length] = 0 THEN length - 1 ELSE length],
                        r1.pad, r1.start)
        ELSE Result(setState(r1.c, state), r1.b, "NotEnoughMemory", <<>>, 0, 0)

(***************************************************************************)
(* Arrays.  An array argument is the tuple of its elements' memory images. *)
(***************************************************************************)
RECURSIVE Flatten(_)
Flatten(arr) == IF Len(arr) = 0 THEN <<>> ELSE Head(arr) \o Flatten(Tail(arr))

Indets(n) == [i \in 1..n |-> Indet]

\* Cdr::serializeArray(const bool*, size_t)
serializeArrayBool(s, bool_t) ==
    LET totalSize == Len(bool_t)
        fits == (s.c.m_lastPosition - s.c.m_currentPosition) >= totalSize
        g == IF fits THEN [ok |-> TRUE, b |-> s.b, c |-> s.c] ELSE resize(s, totalSize)
    IN  IF g.ok
        THEN LET p == g.c.m_currentPosition
                 bytes == [i \in 1..totalSize |-> IF bool_t[i] THEN 1 ELSE 0]
             IN  Result([g.c EXCEPT !.m_lastDataSize = 1, !.m_currentPosition = p + totalSize],
                        [g.b EXCEPT !.mem = WriteAt(g.b.mem, p, bytes)],
                        "none", <<>>, 0, p)
        ELSE NotEnoughMemory(s)

\* Cdr::serializeArray(const char*, size_t)
serializeArrayChar(s, char_t) ==
    LET totalSize == Len(char_t)
        fits == (s.c.m_lastPosition - s.c.m_currentPosition) >= totalSize
        g == IF fits THEN [ok |-> TRUE, b |-> s.b, c |-> s.c] ELSE resize(s, totalSize)
    IN  IF g.ok
        THEN LET p == g.c.m_currentPosition
             IN  Result([g.c EXCEPT !.m_lastDataSize = 1, !.m_currentPosition = p + totalSize],
                        [g.b EXCEPT !.mem = WriteAt(g.b.mem, p, Flatten(char_t))],
                        "none", <<>>, 0, p)
        ELSE NotEnoughMemory(s)

\* what the byte-swapping branch of Cdr::serializeArray(const T*, size_t)
\* emits: dst is the address of the parameter, not of the array, so the
\* bytes come from the pointer variable and the stack after it
SwappedArrayWire(arr, totalSize) == Indets(totalSize)

\* Cdr::serializeArray(const int16_t* | int32_t* | int64_t* | float* | double* |
\* long double*, size_t)
serializeArray(s, t, arr) ==
    IF Len(arr) = 0 THEN Result(s.c, s.b, "none", <<>>, 0, s.c.m_currentPosition)
    ELSE
    LET align == alignment(s.c, AlignOf(t))
        totalSize == SizeOf(t) * Len(arr)
        sizeAligned == totalSize + align
        fits == (s.c.m_lastPosition - s.c.m_currentPosition) >= sizeAligned
        g == IF fits THEN [ok |-> TRUE, b |-> s.b, c |-> s.c] ELSE resize(s, sizeAligned)
    IN  IF g.ok
        THEN LET p == g.c.m_currentPosition + align
                 wire == IF g.c.m_swapBytes THEN SwappedArrayWire(arr, totalSize)
                         ELSE Flatten(arr)
             IN  Result([g.c EXCEPT !.m_lastDataSize = SizeOf(t),
                                    !.m_currentPosition = p + totalSize],
                        [g.b EXCEPT !.mem = WriteAt(g.b.mem, p, wire)],
                        "none", <<>>, align, p)
        ELSE NotEnoughMemory(s)

\* Cdr::serialize(const wchar_t): the 32-bit primitive
serializeWChar(s, wchar) == serialize(s, "int32", wchar)

\* Cdr::serializeArray(const wchar_t*, size_t): the loop from element i on;
\* an exception of an element leaves the loop at once
RECURSIVE serializeArrayWCharFrom(_, _, _)
serializeArrayWCharFrom(s, wchar, i) ==
    IF i > Len(wchar) THEN Result(s.c, s.b, "none", <<>>, 0, s.c.m_currentPosition)
    ELSE LET r == serializeWChar(s, wchar[i])
         IN  IF r.ex # "none" THEN r ELSE serializeArrayWCharFrom(r, wchar, i + 1)

serializeArrayWChar(s, wchar) ==
    IF Len(wchar) = 0 THEN Result(s.c, s.b, "none", <<>>, 0, s.c.m_currentPosition)
    ELSE serializeArrayWCharFrom(s, wchar, 1)

\* Cdr::deserializeArray(bool*, size_t): a byte that is neither 0 nor 1
\* leaves its element as it was
deserializeArrayBool(s, numElements) ==
    IF (s.c.m_lastPosition - s.c.m_currentPosition) >= numElements
    THEN LET p == s.c.m_currentPosition
             raw == ReadAt(s.b.mem, p, numElements)
         IN  Result([s.c EXCEPT !.m_lastDataSize = 1, !.m_currentPosition = p + numElements],
                    s.b, "none",
                    [i \in 1..numElements |->
                        IF raw[i] = 1 THEN TRUE ELSE IF raw[i] = 0 THEN FALSE ELSE Indet],
                    0, p)
    ELSE NotEnoughMemory(s)

\* Cdr::deserializeArray(char*, size_t)
deserializeArrayChar(s, numElements) ==
    IF (s.c.m_lastPosition - s.c.m_currentPosition) >= numElements
    THEN LET p == s.c.m_currentPosition
         IN  Result([s.c EXCEPT !.m_lastDataSize = 1, !.m_currentPosition = p + numElements],
                    s.b, "none", ReadAt(s.b.mem, p, numElements), 0, p)
    ELSE NotEnoughMemory(s)

\* Cdr::deserializeArray(int16_t* | int32_t* | int64_t* | float* | double* |
\* long double*, size_t).  Handed back: the destination array's bytes.  The
\* byte-swapping branch stores through the address of the parameter, so the
\* array itself stays as the caller had it.
deserializeArray(s, t, numElements) ==
    IF numElements = 0 THEN Result(s.c, s.b, "none", <<>>, 0, s.c.m_currentPosition)
    ELSE
    LET align == alignment(s.c, AlignOf(t))
        totalSize == SizeOf(t) * numElements
        sizeAligned == totalSize + align
    IN  IF (s.c.m_lastPosition - s.c.m_currentPosition) >= sizeAligned
        THEN LET p == s.c.m_currentPosition + align
                 n == IF s.c.m_swapBytes THEN SwappedReadSize(t) * numElements
                      ELSE totalSize
             IN  Result([s.c EXCEPT !.m_lastDataSize = SizeOf(t),
                                    !.m_currentPosition = p + n],
                        s.b, "none",
                        IF s.c.m_swapBytes THEN Indets(totalSize)
                        ELSE ReadAt(s.b.mem, p, totalSize),
                        align, p)
        ELSE NotEnoughMemory(s)

\* Cdr::deserializeArray(wchar_t*, size_t): the loop from element i on
RECURSIVE deserializeArrayWCharFrom(_, _, _, _)
deserializeArrayWCharFrom(s, numElements, i, got) ==
    IF i > numElements THEN Result(s.c, s.b, "none", got, 0, s.c.m_currentPosition)
    ELSE LET r == deserialize(s, "int32")
         IN  IF r.ex # "none" THEN r
             ELSE deserializeArrayWCharFrom(r, numElements, i + 1, got \o r.out)

deserializeArrayWChar(s, numElements) ==
    IF numElements = 0 THEN Result(s.c, s.b, "none", <<>>, 0, s.c.m_currentPosition)
    ELSE deserializeArrayWCharFrom(s, numElements, 1, <<>>)

(***************************************************************************)
(* Sequences: a 32-bit element count and then the elements.                *)
(***************************************************************************)
\* Cdr::serializeBoolSequence
serializeBoolSequence(s, vector_t) ==
    LET state == StateOf(s.c)
        r1 == serialize(s, "int32", ToBytes(Len(vector_t), 4))
        totalSize == Len(vector_t)
    IN  IF r1.ex # "none" THEN r1
        ELSE LET fits == (r1.c.m_lastPosition - r1.c.m_currentPosition) >= totalSize
                 g == IF fits THEN [ok |-> TRUE, b |-> r1.b, c |-> r1.c]
                      ELSE resize(r1, totalSize)
             IN  IF g.ok
                 THEN LET p == g.c.m_currentPosition
                          bytes == [i \in 1..totalSize |-> IF vector_t[i] THEN 1 ELSE 0]
                      IN  Result([g.c EXCEPT !.m_lastDataSize = 1,
                                             !.m_currentPosition = p + totalSize],
                                 [g.b EXCEPT !.mem = WriteAt(g.b.mem, p, bytes)],
                                 "none", <<>>, r1.pad, r1.start)
                 ELSE Result(setState(r1.c, state), r1.b, "NotEnoughMemory", <<>>, 0, 0)

\* index of the first of the bytes that is neither 0 nor 1; 0 when none is
FirstBadBool(raw) ==
    LET bad == {i \in 1..Len(raw) : raw[i] \notin {0, 1}}
    IN  IF bad = {} THEN 0 ELSE CHOOSE i \in bad : \A j \in bad : i <= j

\* Cdr::deserializeBoolSequence: the throw for a byte that is neither 0 nor 1
\* comes after the byte has been consumed and is not preceded by setState
deserializeBoolSequence(s) ==
    LET state == StateOf(s.c)
        r1 == deserialize(s, "int32")
        seqLength == FromBytes(r1.out)
    IN  IF r1.ex # "none" THEN r1
        ELSE IF (r1.c.m_lastPosition - r1.c.m_currentPosition) >= seqLength
        THEN LET p == r1.c.m_currentPosition
                 raw == ReadAt(r1.b.mem, p, seqLength)
                 k == FirstBadBool(raw)
             IN  IF k = 0
                 THEN Result([r1.c EXCEPT !.m_lastDataSize = 1,
                                          !.m_currentPosition = p + seqLength],
                             r1.b, "none", [i \in 1..seqLength |-> raw[i] = 1],
                             r1.pad, r1.start)
                 ELSE Result([r1.c EXCEPT !.m_lastDataSize = 1,
                                          !.m_currentPosition = p + k],
                             r1.b, "BadParam", <<>>, 0, 0)
        ELSE Result(setState(r1.c, state), r1.b, "NotEnoughMemory", <<>>, 0, 0)

\* Cdr::deserializeArray(std::string*, size_t): the loop from element i on,
\* each element read as readString reads it
RECURSIVE deserializeArrayStringFrom(_, _, _, _)
deserializeArrayStringFrom(s, numElements, i, got) ==
    IF i > numElements THEN Result(s.c, s.b, "none", got, 0, s.c.m_currentPosition)
    ELSE LET r == readString(s)
         IN  IF r.ex # "none" THEN r
             ELSE deserializeArrayStringFrom(r, numElements, i + 1,
                      Append(got, ReadAt(r.b.mem, Max(r.out.ptr, 0), r.out.length)))

\* Cdr::deserializeStringSequence; handed back: the strings
deserializeStringSequence(s) ==
    LET state == StateOf(s.c)
        r1 == deserialize(s, "int32")
        seqLength == FromBytes(r1.out)
    IN  IF r1.ex # "none" THEN r1
        ELSE LET r == deserializeArrayStringFrom(r1, seqLength, 1, <<>>)
             IN  IF r.ex # "none"
                 THEN Result(setState(r.c, state), r.b, r.ex, <<>>, 0, 0)
                 ELSE [r EXCEPT !.pad = r1.pad, !.start = r1.start]

(***************************************************************************)
(* Encapsulation.                                                          *)
(***************************************************************************)
\* resetAlignment storing the offset of the cursor from the anchor
resetAlignment_Offset(c) ==
    [c EXCEPT !.m_alignPosition = c.m_currentPosition - c.m_alignPosition]

\* Cdr::resetAlignment
resetAlignment(c) == [c EXCEPT !.m_alignPosition = c.m_currentPosition]

\* catch(Exception&) of the encapsulation functions: "setState(state); ex.raise()"
EncapsulationCatch(r, state) ==
    Result(setState(r.c, state), r.b, r.ex, <<>>, 0, 0)

\* readEncapsulationOptions without the closing resetAlignment()
readEncapsulationOptions_NoReset(s, state) ==
    LET r == IF s.c.m_cdrType = "DDS_CDR" THEN deserialize(s, "int16")
             ELSE Result(s.c, s.b, "none", <<>>, 0, 0)
    IN  IF r.ex # "none" THEN EncapsulationCatch(r, state)
        ELSE Result(r.c, r.b, "none", <<>>, 0, 0)

\* Cdr::read_encapsulation, from the options on
readEncapsulationOptions(s, state) ==
    LET r == IF s.c.m_cdrType = "DDS_CDR" THEN deserialize(s, "int16")
             ELSE Result(s.c, s.b, "none", <<>>, 0, 0)
    IN  IF r.ex # "none" THEN EncapsulationCatch(r, state)
        ELSE LET c1 == IF s.c.m_cdrType = "DDS_CDR"
                       THEN [r.c EXCEPT !.m_options = FromBytes(r.out)]
                       ELSE r.c
             IN  Result(resetAlignment(c1), r.b, "none", <<>>, 0, 0)

\* Cdr::read_encapsulation, the parameter-list check between the two try blocks
readEncapsulationPl(s, encapsulationKind, state) ==
    IF (encapsulationKind \div DDS_CDR_WITH_PL) % 2 = 1
    THEN IF s.c.m_cdrType = "DDS_CDR"
         THEN readEncapsulationOptions([s EXCEPT !.c.m_plFlag = DDS_CDR_WITH_PL], state)
         ELSE Result(s.c, s.b, "BadParam", <<>>, 0, 0)
    ELSE readEncapsulationOptions(s, state)

\* Cdr::read_encapsulation
read_encapsulation(s) ==
    LET state == StateOf(s.c)
        r0 == IF s.c.m_cdrType = "DDS_CDR" THEN deserialize(s, "char")
              ELSE Result(s.c, s.b, "none", <<>>, 0, 0)
        r1 == deserialize(r0, "char")
    IN  IF r0.ex # "none" THEN EncapsulationCatch(r0, state)
        ELSE IF r1.ex # "none" THEN EncapsulationCatch(r1, state)
        ELSE LET encapsulationKind == r1.out[1]
                 c2 == IF r1.c.m_endianness # (encapsulationKind % 2)
                       THEN [r1.c EXCEPT !.m_swapBytes = ~r1.c.m_swapBytes,
                                         !.m_endianness = encapsulationKind % 2]
                       ELSE r1.c
             IN  readEncapsulationPl([c |-> c2, b |-> r1.b], encapsulationKind, state)

\* serialize_encapsulation writing the dummy byte for either type
serialize_encapsulation_Dummy(s) ==
    LET r0 == serialize(s, "char", <<0>>)
        r1 == serialize(r0, "char", <<s.c.m_plFlag + s.c.m_endianness>>)
        r2 == serialize(r1, "int16", ToBytes(s.c.m_options, 2))
    IN  IF r0.ex # "none" \/ r1.ex # "none" \/ r2.ex # "none"
        THEN Result(s.c, s.b, "NotEnoughMemory", <<>>, 0, 0)
        ELSE Result(resetAlignment(r2.c), r2.b, "none", <<>>, 0, 0)

\* Cdr::serialize_encapsulation; m_plFlag | m_endianness is their sum, the
\* two occupying different bits
serialize_encapsulation(s) ==
    LET state == StateOf(s.c)
        r0 == IF s.c.m_cdrType = "DDS_CDR" THEN serialize(s, "char", <<0>>)
              ELSE Result(s.c, s.b, "none", <<>>, 0, 0)
        encapsulationKind == s.c.m_plFlag + s.c.m_endianness
        r1 == serialize(r0, "char", <<encapsulationKind>>)
        r2 == IF s.c.m_cdrType = "DDS_CDR"
              THEN serialize(r1, "int16", ToBytes(s.c.m_options, 2))
              ELSE r1
    IN  IF r0.ex # "none" THEN EncapsulationCatch(r0, state)
        ELSE IF r1.ex # "none" THEN EncapsulationCatch(r1, state)
        ELSE IF r2.ex # "none" THEN EncapsulationCatch(r2, state)
        ELSE Result(resetAlignment(r2.c), r2.b, "none", <<>>, 0, 0)

(***************************************************************************)
(* Cursor utilities.                                                       *)
(***************************************************************************)
\* Cdr::changeEndianness
changeEndianness(c, endianness) ==
    IF c.m_endianness # endianness
    THEN [c EXCEPT !.m_swapBytes = ~c.m_swapBytes, !.m_endianness = endianness]
    ELSE c

\* jump that does not ask for a grow
jump_NoGrow(s, numBytes) ==
    IF (s.c.m_lastPosition - s.c.m_currentPosition) >= numBytes
    THEN Result([s.c EXCEPT !.m_currentPosition = @ + numBytes], s.b, "none", <<TRUE>>, 0, 0)
    ELSE Result(s.c, s.b, "none", <<FALSE>>, 0, 0)

\* Cdr::jump; handed back: returnedValue
jump(s, numBytes) ==
    LET fits == (s.c.m_lastPosition - s.c.m_currentPosition) >= numBytes
        g == IF fits THEN [ok |-> TRUE, b |-> s.b, c |-> s.c] ELSE resize(s, numBytes)
    IN  IF g.ok
        THEN Result([g.c EXCEPT !.m_currentPosition = @ + numBytes], g.b, "none", <<TRUE>>, 0, 0)
        ELSE Result(s.c, s.b, "none", <<FALSE>>, 0, 0)

\* moveAlignmentForward measuring the room left from m_currentPosition
moveAlignmentForward_FromCursor(s, numBytes) ==
    LET fits == (s.c.m_lastPosition - s.c.m_currentPosition) >= numBytes
        g == IF fits THEN [ok |-> TRUE, b |-> s.b, c |-> s.c] ELSE resize(s, numBytes)
    IN  IF g.ok
        THEN Result([g.c EXCEPT !.m_alignPosition = @ + numBytes], g.b, "none", <<TRUE>>, 0, 0)
        ELSE Result(s.c, s.b, "none", <<FALSE>>, 0, 0)

\* moveAlignmentForward without the check against m_lastPosition
moveAlignmentForward_Unchecked(s, numBytes) ==
    Result([s.c EXCEPT !.m_alignPosition = @ + numBytes], s.b, "none", <<TRUE>>, 0, 0)

\* Cdr::moveAlignmentForward; handed back: returnedValue
moveAlignmentForward(s, numBytes) ==
    LET fits == (s.c.m_lastPosition - s.c.m_alignPosition) >= numBytes
        g == IF fits THEN [ok |-> TRUE, b |-> s.b, c |-> s.c] ELSE resize(s, numBytes)
    IN  IF g.ok
        THEN Result([g.c EXCEPT !.m_alignPosition = @ + numBytes], g.b, "none", <<TRUE>>, 0, 0)
        ELSE Result(s.c, s.b, "none", <<FALSE>>, 0, 0)

\* reset leaving m_swapBytes as it was
reset_KeepSwap(c) ==
    [c EXCEPT !.m_currentPosition = 0, !.m_alignPosition = 0, !.m_lastDataSize = 0]

\* Cdr::reset
reset(c) ==
    [c EXCEPT !.m_currentPosition = 0,
              !.m_alignPosition = 0,
              !.m_swapBytes = (c.m_endianness # DEFAULT_ENDIAN),
              !.m_lastDataSize = 0]

\* Cdr::setDDSCdrPlFlag
setDDSCdrPlFlag(c, plFlag) == [c EXCEPT !.m_plFlag = plFlag]

\* Cdr::setDDSCdrOptions
setDDSCdrOptions(c, options) == [c EXCEPT !.m_options = options]

(***************************************************************************)
(* Actions: one public call each.  A call is made while ncalls <= MaxSetup.*)
(* The calls that prepare a state (few arguments) may be followed by       *)
(* another call; a call from the large families ends the run, so a run is  *)
(* at most MaxSetup preparing calls and one call of any kind.              *)
(***************************************************************************)
Cur == [c |-> cdr, b |-> cdrBuffer]

Settle(bytes, f) == [i \in 1..Len(bytes) |-> IF bytes[i] = Indet THEN f ELSE bytes[i]]

\* the object as a reading call finds it when indeterminate bytes hold f
Settled(f) == [c |-> cdr, b |-> [cdrBuffer EXCEPT !.mem = Settle(@, f)]]

\* the outcome of a reading call: the bytes the buffer held before the call
\* are not written to
Read(r) ==
    [r EXCEPT !.b.mem = [i \in 1..Len(@) |->
                            IF i <= Len(cdrBuffer.mem) THEN cdrBuffer.mem[i] ELSE @[i]]]

Made(op, t, bo, arg, r, last) ==
    /\ ncalls <= MaxSetup
    /\ cdr' = r.c
    /\ cdrBuffer' = r.b
    /\ call' = [ op |-> op, t |-> t, bo |-> bo, arg |-> arg, ex |-> r.ex,
                 out |-> r.out, pad |-> r.pad, start |-> r.start, sw |-> r.sw,
                 pre |-> cdr, preBuf |-> cdrBuffer ]
    /\ ncalls' = IF last THEN MaxSetup + 1 ELSE ncalls + 1
    /\ UNCHANGED <<savedState, written, shmVars, recordVars>>

Counts == 0..MaxCount
Strings == {NullString, StringOf(<<104, 105>>)}
ArrayOf(t, n) == [i \in 1..n |-> Pattern(SizeOf(t), i)]

Serialize ==
    \E t \in PrimTypes, bo \in Forms : \E v \in PrimValues(t) :
        Made("serialize", t, bo, v, InForm(Cur, bo, serialize(EnterForm(Cur, bo), t, v)), TRUE)

SerializeChar ==
    \E v \in PrimValues("char") :
        Made("serialize", "char", <<>>, v, serialize(Cur, "char", v), FALSE)

SerializeBool ==
    \E v \in BOOLEAN :
        Made("serialize", "bool", <<>>, <<v>>, serializeBool(Cur, v), TRUE)

Deserialize ==
    \E t \in PrimTypes, bo \in Forms, f \in FillBytes :
        LET r == InForm(Settled(f), bo, deserialize(EnterForm(Settled(f), bo), t))
        IN  Made("deserialize", t, bo, <<>>, Read([r EXCEPT !.out = Settle(@, f)]), TRUE)

DeserializeChar ==
    \E f \in FillBytes :
        Made("deserialize", "char", <<>>, <<>>, Read(deserialize(Settled(f), "char")), TRUE)

DeserializeBool ==
    \E f \in FillBytes :
        Made("deserialize", "bool", <<>>, <<>>, Read(deserializeBool(Settled(f))), TRUE)

SerializeString ==
    \E str \in Strings, bo \in Forms :
        Made("serialize", "string", bo, str,
             InForm(Cur, bo, serializeString(EnterForm(Cur, bo), str)), TRUE)

SerializeStringN ==
    \E str \in Strings, bo \in Forms :
        \E n \in 0..Len(str.chars) :
            Made("serializeN", "string", bo, <<str, n>>,
                 InForm(Cur, bo, serializeStringN(EnterForm(Cur, bo), str, n)), TRUE)

DeserializeString ==
    \E bo \in Forms, f \in FillBytes :
        Made("deserialize", "string", bo, <<>>,
             Read(InForm(Settled(f), bo, deserializeString(EnterForm(Settled(f), bo)))), TRUE)

ReadString ==
    \E f \in FillBytes :
        Made("readString", "string", <<>>, <<>>, Read(readString(Settled(f))), TRUE)

SerializeArrayBool ==
    \E n \in Counts :
        Made("serializeArray", "bool", <<>>, n,
             serializeArrayBool(Cur, [i \in 1..n |-> i % 2 = 1]), TRUE)

SerializeArrayChar ==
    \E n \in Counts :
        Made("serializeArray", "char", <<>>, n,
             serializeArrayChar(Cur, ArrayOf("char", n)), TRUE)

SerializeArray ==
    \E t \in PrimTypes, n \in Counts, bo \in Forms :
        Made("serializeArray", t, bo, n,
             InForm(Cur, bo, serializeArray(EnterForm(Cur, bo), t, ArrayOf(t, n))), TRUE)

SerializeArrayWChar ==
    \E n \in Counts, bo \in Forms :
        Made("serializeArray", "wchar", bo, n,
             InForm(Cur, bo, serializeArrayWChar(EnterForm(Cur, bo), ArrayOf("int32", n))), TRUE)

DeserializeArrayBool ==
    \E n \in Counts, f \in FillBytes :
        Made("deserializeArray", "bool", <<>>, n, Read(deserializeArrayBool(Settled(f), n)), TRUE)

DeserializeArrayChar ==
    \E n \in Counts, f \in FillBytes :
        Made("deserializeArray", "char", <<>>, n, Read(deserializeArrayChar(Settled(f), n)), TRUE)

DeserializeArray ==
    \E t \in PrimTypes, n \in Counts, bo \in Forms, f \in FillBytes :
        Made("deserializeArray", t, bo, n,
             Read(InForm(Settled(f), bo, deserializeArray(EnterForm(Settled(f), bo), t, n))), TRUE)

DeserializeArrayWChar ==
    \E n \in Counts, bo \in Forms, f \in FillBytes :
        Made("deserializeArray", "wchar", bo, n,
             Read(InForm(Settled(f), bo, deserializeArrayWChar(EnterForm(Settled(f), bo), n))), TRUE)

SerializeBoolSequence ==
    \E n \in Counts :
        Made("serializeBoolSequence", "boolseq", <<>>, n,
             serializeBoolSequence(Cur, [i \in 1..n |-> i % 2 = 1]), TRUE)

DeserializeBoolSequence ==
    \E f \in FillBytes :
        Made("deserializeBoolSequence", "boolseq", <<>>, <<>>,
             Read(deserializeBoolSequence(Settled(f))), TRUE)

DeserializeStringSequence ==
    \E f \in FillBytes :
        Made("deserializeStringSequence", "stringseq", <<>>, <<>>,
             Read(deserializeStringSequence(Settled(f))), TRUE)

ReadEncapsulation ==
    \E f \in FillBytes :
        Made("read_encapsulation", "none", <<>>, <<>>, Read(read_encapsulation(Settled(f))), FALSE)

SerializeEncapsulation ==
    Made("serialize_encapsulation", "none", <<>>, <<>>, serialize_encapsulation(Cur), FALSE)

SetDDSCdrPlFlag ==
    \E plFlag \in {DDS_CDR_WITHOUT_PL, DDS_CDR_WITH_PL} :
        Made("setDDSCdrPlFlag", "none", <<>>, plFlag,
             Result(setDDSCdrPlFlag(cdr, plFlag), cdrBuffer, "none", <<>>, 0, 0),
             plFlag = cdr.m_plFlag)

SetDDSCdrOptions ==
    \E options \in {48879} :
        Made("setDDSCdrOptions", "none", <<>>, options,
             Result(setDDSCdrOptions(cdr, options), cdrBuffer, "none", <<>>, 0, 0),
             options = cdr.m_options)

ChangeEndianness ==
    \E endianness \in Endiannesses :
        Made("changeEndianness", "none", <<>>, endianness,
             Result(changeEndianness(cdr, endianness), cdrBuffer, "none", <<>>, 0, 0),
             endianness = cdr.m_endianness)

JumpSizes == {1, 8}

Jump ==
    \E numBytes \in JumpSizes :
        Made("jump", "none", <<>>, numBytes, jump(Cur, numBytes), FALSE)

MoveAlignmentForward ==
    \E numBytes \in JumpSizes :
        Made("moveAlignmentForward", "none", <<>>, numBytes,
             moveAlignmentForward(Cur, numBytes), numBytes # 1)

ResetAlignment ==
    Made("resetAlignment", "none", <<>>, <<>>,
         Result(resetAlignment(cdr), cdrBuffer, "none", <<>>, 0, 0), TRUE)

Reset ==
    Made("reset", "none", <<>>, <<>>,
         Result(reset(cdr), cdrBuffer, "none", <<>>, 0, 0), TRUE)

\* Cdr::getState
GetState ==
    /\ ncalls <= MaxSetup
    /\ savedState' = <<StateOf(cdr)>>
    /\ call' = [NoCall EXCEPT !.op = "getState", !.pre = cdr, !.preBuf = cdrBuffer]
    /\ ncalls' = ncalls + 1
    /\ UNCHANGED <<cdr, cdrBuffer, written, shmVars, recordVars>>

SetState ==
    /\ savedState # <<>>
    /\ Made("setState", "none", <<>>, savedState,
            Result(setState(cdr, savedState[1]), cdrBuffer, "none", <<>>, 0, 0), TRUE)

Next ==
    \/ Serialize
    \/ SerializeChar
    \/ SerializeBool
    \/ Deserialize
    \/ DeserializeChar
    \/ DeserializeBool
    \/ SerializeString
    \/ SerializeStringN
    \/ DeserializeString
    \/ ReadString
    \/ SerializeArrayBool
    \/ SerializeArrayChar
    \/ SerializeArray
    \/ SerializeArrayWChar
    \/ DeserializeArrayBool
    \/ DeserializeArrayChar
    \/ DeserializeArray
    \/ DeserializeArrayWChar
    \/ SerializeBoolSequence
    \/ DeserializeBoolSequence
    \/ DeserializeStringSequence
    \/ ReadEncapsulation
    \/ SerializeEncapsulation
    \/ SetDDSCdrPlFlag
    \/ SetDDSCdrOptions
    \/ ChangeEndianness
    \/ Jump
    \/ MoveAlignmentForward
    \/ ResetAlignment
    \/ Reset
    \/ GetState
    \/ SetState

Spec == Init /\ [][Next]_vars

(***************************************************************************)
(* Round trips: a value is serialized with an Endianness argument, the     *)
(* object is put back to where the write began (setState with the state    *)
(* held from before the write) and the value is deserialized with the same *)
(* argument.                                                               *)
(***************************************************************************)
RoundTripValues(t) == {Pattern(SizeOf(t), 1), Pattern(SizeOf(t), 2), Zeros(SizeOf(t))}

RTPrepare ==
    /\ written = <<>>
    /\ \/ Jump
       \/ ChangeEndianness
       \/ SerializeChar

RTSerialize ==
    /\ written = <<>>
    /\ \E t \in PrimTypes, bo \in Endiannesses : \E v \in RoundTripValues(t) :
        LET r == WithEndianness(Cur, bo, serialize(EnterEndianness(Cur, bo), t, v))
        IN  /\ r.ex = "none"
            /\ cdr' = r.c
            /\ cdrBuffer' = r.b
            /\ call' = [ op |-> "serialize", t |-> t, bo |-> <<bo>>, arg |-> v,
                         ex |-> r.ex, out |-> r.out, pad |-> r.pad, start |-> r.start,
                         sw |-> r.sw, pre |-> cdr, preBuf |-> cdrBuffer ]
            /\ savedState' = <<StateOf(cdr)>>
            /\ written' = <<[t |-> t, bo |-> bo, v |-> v, end |-> r.c.m_currentPosition]>>
            /\ UNCHANGED <<ncalls, shmVars, recordVars>>

RTRewind ==
    /\ written # <<>>
    /\ call.op = "serialize"
    /\ cdr' = setState(cdr, savedState[1])
    /\ call' = [NoCall EXCEPT !.op = "setState", !.pre = cdr, !.preBuf = cdrBuffer]
    /\ UNCHANGED <<cdrBuffer, savedState, ncalls, written, shmVars, recordVars>>

RTDeserialize ==
    /\ written # <<>>
    /\ call.op = "setState"
    /\ \E f \in FillBytes :
        LET w == written[1]
            r == WithEndianness(Settled(f), w.bo, deserialize(EnterEndianness(Settled(f), w.bo), w.t))
        IN  /\ cdr' = r.c
            /\ cdrBuffer' = cdrBuffer
            /\ call' = [ op |-> "deserialize", t |-> w.t, bo |-> <<w.bo>>, arg |-> <<>>,
                         ex |-> r.ex, out |-> Settle(r.out, f), pad |-> r.pad,
                         start |-> r.start, sw |-> r.sw, pre |-> cdr, preBuf |-> cdrBuffer ]
            /\ UNCHANGED <<savedState, ncalls, written, shmVars, recordVars>>

RoundTripNext ==
    \/ RTPrepare
    \/ RTSerialize
    \/ RTRewind
    \/ RTDeserialize

SpecRoundTrip == Init /\ [][RoundTripNext]_vars

(***************************************************************************)
(* Encapsulated streams: a writer sets its flag and options, writes the    *)
(* encapsulation and then primitives; a second Cdr of the same type, of    *)
(* either initial endianness, is constructed over the same bytes, reads    *)
(* the encapsulation and then the primitives in the order written.         *)
(***************************************************************************)
StreamTypes == PrimTypes \cup {"char"}

Step(op, t, arg, r, out) ==
    /\ cdr' = r.c
    /\ cdrBuffer' = r.b
    /\ call' = [ op |-> op, t |-> t, bo |-> <<>>, arg |-> arg, ex |-> r.ex,
                 out |-> out, pad |-> r.pad, start |-> r.start, sw |-> r.sw,
                 pre |-> cdr, preBuf |-> cdrBuffer ]

EncSetDDSCdrPlFlag ==
    /\ call.op = "new"
    /\ Step("setDDSCdrPlFlag", "none", DDS_CDR_WITH_PL,
            Result(setDDSCdrPlFlag(cdr, DDS_CDR_WITH_PL), cdrBuffer, "none", <<>>, 0, 0), <<>>)
    /\ UNCHANGED <<savedState, ncalls, written, shmVars, recordVars>>

EncSetDDSCdrOptions ==
    /\ call.op \in {"new", "setDDSCdrPlFlag"}
    /\ Step("setDDSCdrOptions", "none", 48879,
            Result(setDDSCdrOptions(cdr, 48879), cdrBuffer, "none", <<>>, 0, 0), <<>>)
    /\ UNCHANGED <<savedState, ncalls, written, shmVars, recordVars>>

EncSerializeEncapsulation ==
    /\ call.op \in {"new", "setDDSCdrPlFlag", "setDDSCdrOptions",
                    "getState", "changeEndianness", "setState"}
    /\ LET r == serialize_encapsulation(Cur)
       IN  /\ r.ex = "none"
           /\ Step("serialize_encapsulation", "none", <<>>, r, <<>>)
    /\ UNCHANGED <<savedState, ncalls, written, shmVars, recordVars>>

EncSerialize ==
    /\ call.op \in {"serialize_encapsulation", "serialize"}
    /\ Len(written) < MaxWrites
    /\ \E t \in StreamTypes : \E v \in PrimValues(t) :
        LET r == serialize(Cur, t, v)
        IN  /\ r.ex = "none"
            /\ Step("serialize", t, v, r, <<>>)
            /\ written' = Append(written, [t |-> t, bo |-> cdr.m_endianness, v |-> v,
                                           end |-> r.c.m_currentPosition])
    /\ UNCHANGED <<savedState, ncalls, shmVars, recordVars>>

\* Cdr::Cdr for the reader, over the buffer the writer filled
EncReader ==
    /\ call.op \in {"serialize_encapsulation", "serialize"}
    /\ \E e \in Endiannesses :
        Step("Cdr", "none", e,
             Result(NewCdr(cdrBuffer, e, cdr.m_cdrType), cdrBuffer, "none", <<>>, 0, 0), <<>>)
    /\ UNCHANGED <<savedState, ncalls, written, shmVars, recordVars>>

EncReadEncapsulation ==
    /\ call.op = "Cdr"
    /\ \E f \in FillBytes :
        Step("read_encapsulation", "none", <<>>, Read(read_encapsulation(Settled(f))), <<>>)
    /\ UNCHANGED <<savedState, ncalls, written, shmVars, recordVars>>

\* the read matching the oldest write not yet read back; arg is the value
\* that was written
EncDeserialize ==
    /\ call.op \in {"read_encapsulation", "deserialize"}
    /\ call.ex = "none"
    /\ written # <<>>
    /\ \E f \in FillBytes :
        LET w == Head(written)
            r == deserialize(Settled(f), w.t)
        IN  Step("deserialize", w.t, w.v, Read(r), Settle(r.out, f))
    /\ written' = Tail(written)
    /\ UNCHANGED <<savedState, ncalls, shmVars, recordVars>>

EncapsulationNext ==
    \/ EncSetDDSCdrPlFlag
    \/ EncSetDDSCdrOptions
    \/ EncSerializeEncapsulation
    \/ EncSerialize
    \/ EncReader
    \/ EncReadEncapsulation
    \/ EncDeserialize

SpecEncapsulation == Init /\ [][EncapsulationNext]_vars

(***************************************************************************)
(* Writing the encapsulation after the object's state has been saved,      *)
(* changed and put back: getState, changeEndianness and setState in any    *)
(* order, at most MaxHeaderSetup of them, then serialize_encapsulation.    *)
(***************************************************************************)
HeaderSetup ==
    /\ call.op # "serialize_encapsulation"
    /\ ncalls < MaxHeaderSetup
    /\ ncalls' = ncalls + 1

HdrGetState ==
    /\ HeaderSetup
    /\ savedState' = <<StateOf(cdr)>>
    /\ call' = [NoCall EXCEPT !.op = "getState", !.pre = cdr, !.preBuf = cdrBuffer]
    /\ UNCHANGED <<cdr, cdrBuffer, written, shmVars, recordVars>>

HdrChangeEndianness ==
    /\ HeaderSetup
    /\ \E endianness \in Endiannesses \ {cdr.m_endianness} :
        Step("changeEndianness", "none", endianness,
             Result(changeEndianness(cdr, endianness), cdrBuffer, "none", <<>>, 0, 0), <<>>)
    /\ UNCHANGED <<savedState, written, shmVars, recordVars>>

HdrSetState ==
    /\ HeaderSetup
    /\ savedState # <<>>
    /\ Step("setState", "none", savedState,
            Result(setState(cdr, savedState[1]), cdrBuffer, "none", <<>>, 0, 0), <<>>)
    /\ UNCHANGED <<savedState, written, shmVars, recordVars>>

HeaderNext ==
    \/ EncSetDDSCdrPlFlag
    \/ EncSetDDSCdrOptions
    \/ HdrGetState
    \/ HdrChangeEndianness
    \/ HdrSetState
    \/ EncSerializeEncapsulation

SpecHeader == Init /\ [][HeaderNext]_vars

(***************************************************************************)
(* PosixSegment.  Two processes hold a PosixSegment of the same channel;   *)
(* each system call and each access to the mapped memory is a step, so     *)
(* that the calls of the two interleave.  shm.name is the object the       *)
(* channel's name refers to (0: none), shm.objs the objects created so     *)
(* far; an unlinked object stays mapped where it was mapped.  A mapping is *)
(* the number of the object mapped.  Placement new and reinterpret_cast of *)
(* a mapped address never give nullptr and the block loops always run to   *)
(* block_num, so the branches at lines 78, 92, 118, 169, 181 and 200 are   *)
(* never taken.                                                            *)
(***************************************************************************)
MaxObjects == 2
MaxSegmentCalls == 2

\* conf_.managed_shm_size()
managed_shm_size == 1024

\* the members of a PosixSegment
Members(g) ==
    [ init_ |-> g.init_, managed_shm_ |-> g.managed_shm_,
      state_ |-> g.state_, blocks_ |-> g.blocks_ ]

\* a call of op starts
Enter(g, op) ==
    [g EXCEPT !.op = op, !.ret = <<>>, !.pre = Members(g), !.created = 0,
              !.attached = FALSE, !.saw = FALSE, !.sys = FALSE, !.unmapped = <<>>,
              !.calls = @ + 1]

\* "return returnedValue;"
Return(g, returnedValue) == [g EXCEPT !.pc = "idle", !.fd = 0, !.ret = <<returnedValue>>]

Idle(p) == seg[p].pc = "idle" /\ seg[p].calls < MaxSegmentCalls

\* shm_unlink(shm_name_.c_str())
shm_unlink(s, fd) == IF s.name = fd THEN [s EXCEPT !.name = 0] ELSE s

\* PosixSegment::OpenOrCreate up to the shm_open with O_CREAT | O_EXCL
OocShmOpen(p) ==
    /\ Idle(p)
    /\ LET g == Enter(seg[p], "OpenOrCreate")
       IN  IF g.init_
           THEN seg' = [seg EXCEPT ![p] = Return(g, TRUE)] /\ UNCHANGED shm
           ELSE \E errno \in {"none", "EEXIST", "other"} :
                   /\ errno = "EEXIST" <=> shm.name # 0
                   /\ errno = "none" => Len(shm.objs) < MaxObjects
                   /\ CASE errno = "EEXIST" ->
                               /\ seg' = [seg EXCEPT ![p] = [g EXCEPT !.pc = "OpenOnly", !.sys = TRUE]]
                               /\ UNCHANGED shm
                        [] errno = "other" ->
                               /\ seg' = [seg EXCEPT ![p] = Return([g EXCEPT !.sys = TRUE], FALSE)]
                               /\ UNCHANGED shm
                        [] errno = "none" ->
                               LET fd == Len(shm.objs) + 1
                               IN  /\ shm' = [name |-> fd,
                                              objs |-> Append(shm.objs,
                                                  [size |-> 0, state |-> FALSE,
                                                   reference_counts |-> 0])]
                                   /\ seg' = [seg EXCEPT ![p] =
                                          [g EXCEPT !.pc = "ftruncate", !.fd = fd,
                                                    !.created = fd, !.sys = TRUE]]
    /\ UNCHANGED <<cdrVars, recordVars>>

\* OpenOrCreate: ftruncate(fd, conf_.managed_shm_size())
OocFtruncate(p) ==
    /\ seg[p].pc = "ftruncate"
    /\ \E ok \in BOOLEAN :
        IF ok
        THEN /\ shm' = [shm EXCEPT !.objs[seg[p].fd].size = managed_shm_size]
             /\ seg' = [seg EXCEPT ![p].pc = "mmap"]
        ELSE /\ seg' = [seg EXCEPT ![p] = Return(@, FALSE)]
             /\ UNCHANGED shm
    /\ UNCHANGED <<cdrVars, recordVars>>

\* OpenOrCreate: mmap
OocMmap(p) ==
    /\ seg[p].pc = "mmap"
    /\ \E ok \in BOOLEAN :
        IF ok
        THEN /\ seg' = [seg EXCEPT ![p] = [@ EXCEPT !.managed_shm_ = seg[p].fd, !.fd = 0,
                                                    !.pc = "State"]]
             /\ UNCHANGED shm
        ELSE /\ seg' = [seg EXCEPT ![p] = Return([@ EXCEPT !.managed_shm_ = MAP_FAILED], FALSE)]
             /\ shm' = shm_unlink(shm, seg[p].fd)
    /\ UNCHANGED <<cdrVars, recordVars>>

\* OpenOrCreate: State is constructed in the mapped memory, then blocks_ and
\* the block buffers are placed
OocCreateState(p) ==
    /\ seg[p].pc = "State"
    /\ shm' = [shm EXCEPT !.objs[seg[p].managed_shm_] =
                   [@ EXCEPT !.state = TRUE, !.reference_counts = 0]]
    /\ seg' = [seg EXCEPT ![p] = [@ EXCEPT !.state_ = seg[p].managed_shm_,
                                           !.blocks_ = seg[p].managed_shm_,
                                           !.pc = "IncreaseReferenceCounts"]]
    /\ UNCHANGED <<cdrVars, recordVars>>

\* OpenOnly called without looking at init_
CallOpenOnly_NoInitCheck(p) ==
    /\ Idle(p)
    /\ seg' = [seg EXCEPT ![p] = [Enter(@, "OpenOnly") EXCEPT !.pc = "OpenOnly"]]
    /\ UNCHANGED <<shm, cdrVars, recordVars>>

\* PosixSegment::OpenOnly called by the user of the segment: "if (init_)"
CallOpenOnly(p) ==
    /\ Idle(p)
    /\ LET g == Enter(seg[p], "OpenOnly")
       IN  seg' = [seg EXCEPT ![p] = IF g.init_ THEN Return(g, TRUE)
                                     ELSE [g EXCEPT !.pc = "OpenOnly"]]
    /\ UNCHANGED <<shm, cdrVars, recordVars>>

\* OpenOnly: shm_open with O_RDWR
OoShmOpen(p) ==
    /\ seg[p].pc = "OpenOnly"
    /\ \E ok \in BOOLEAN :
        /\ ok => shm.name # 0
        /\ seg' = [seg EXCEPT ![p] =
               IF ok THEN [@ EXCEPT !.pc = "fstat", !.fd = shm.name, !.sys = TRUE]
               ELSE Return([@ EXCEPT !.sys = TRUE], FALSE)]
    /\ UNCHANGED <<shm, cdrVars, recordVars>>

\* OpenOnly: fstat
OoFstat(p) ==
    /\ seg[p].pc = "fstat"
    /\ \E ok \in BOOLEAN :
        seg' = [seg EXCEPT ![p] =
            IF ok THEN [@ EXCEPT !.pc = "attach", !.st_size = shm.objs[seg[p].fd].size]
            ELSE Return(@, FALSE)]
    /\ UNCHANGED <<shm, cdrVars, recordVars>>

\* OpenOnly: mmap of file_attr.st_size bytes, which fails for 0 bytes
OoMmap(p) ==
    /\ seg[p].pc = "attach"
    /\ \E ok \in BOOLEAN :
        /\ ok => seg[p].st_size > 0
        /\ seg' = [seg EXCEPT ![p] =
               IF ok THEN [@ EXCEPT !.managed_shm_ = seg[p].fd, !.fd = 0, !.pc = "state_"]
               ELSE Return([@ EXCEPT !.managed_shm_ = MAP_FAILED], FALSE)]
    /\ UNCHANGED <<shm, cdrVars, recordVars>>

\* OpenOnly: state_, conf_.Update(state_->ceiling_msg_size()), blocks_ and
\* the block buffers; saw: State had been constructed when it was read
OoGetState(p) ==
    /\ seg[p].pc = "state_"
    /\ seg' = [seg EXCEPT ![p] = [@ EXCEPT !.state_ = seg[p].managed_shm_,
                                           !.blocks_ = seg[p].managed_shm_,
                                           !.attached = TRUE,
                                           !.saw = shm.objs[seg[p].managed_shm_].state,
                                           !.pc = "IncreaseReferenceCounts"]]
    /\ UNCHANGED <<shm, cdrVars, recordVars>>

\* both functions: "state_->IncreaseReferenceCounts(); init_ = true; return true;"
ReturnTrue(p) ==
    /\ seg[p].pc = "IncreaseReferenceCounts"
    /\ shm' = [shm EXCEPT !.objs[seg[p].state_].reference_counts = @ + 1]
    /\ seg' = [seg EXCEPT ![p] = Return([@ EXCEPT !.init_ = TRUE, !.incs = @ + 1], TRUE)]
    /\ UNCHANGED <<cdrVars, recordVars>>

\* PosixSegment::Reset; unmapped: what munmap was called with
SegmentReset(p) ==
    /\ Idle(p)
    /\ LET g == Enter(seg[p], "Reset")
       IN  seg' = [seg EXCEPT ![p] =
               [g EXCEPT !.state_ = nullptr, !.blocks_ = nullptr,
                         !.managed_shm_ = nullptr,
                         !.unmapped = IF g.managed_shm_ # nullptr
                                      THEN <<g.managed_shm_>> ELSE <<>>]]
    /\ UNCHANGED <<shm, cdrVars, recordVars>>

\* no Cdr object is in use
CdrIdle ==
    /\ cdrBuffer = UserBuffer(<<>>)
    /\ cdr = NewCdr(cdrBuffer, DEFAULT_ENDIAN, "CORBA_CDR")
    /\ savedState = <<>>
    /\ call = NoCall
    /\ ncalls = 0
    /\ written = <<>>

SegmentInit == CdrIdle /\ SegmentIdle /\ RecordIdle

SegmentNext ==
    \E p \in Procs :
        \/ OocShmOpen(p)
        \/ OocFtruncate(p)
        \/ OocMmap(p)
        \/ OocCreateState(p)
        \/ CallOpenOnly(p)
        \/ OoShmOpen(p)
        \/ OoFstat(p)
        \/ OoMmap(p)
        \/ OoGetState(p)
        \/ ReturnTrue(p)
        \/ SegmentReset(p)

SpecSegment == SegmentInit /\ [][SegmentNext]_vars

(***************************************************************************)
(* Chunk.  A message is its time and the size of its content.  add() is    *)
(* given statement by statement, so that the calls of several threads can  *)
(* be interleaved; called by one thread the statements run together.       *)
(***************************************************************************)
MaxChunkCalls == 4
MaxThreadCalls == 3

Times == {0, 1, 2}
ContentSizes == {0, 3}
Messages == [time : Times, size : ContentSizes]

\* Chunk::add: "body_->add_messages(); *p_message = message;"
addBody(c, message) == [c EXCEPT !.body_ = Append(@, message)]

\* Chunk::add: the three ifs on begin_time and end_time
addTimes(c, message) ==
    LET c1 == IF c.begin_time = 0 THEN [c EXCEPT !.begin_time = message.time] ELSE c
        c2 == IF c1.begin_time > message.time
              THEN [c1 EXCEPT !.begin_time = message.time] ELSE c1
    IN  IF c2.end_time < message.time THEN [c2 EXCEPT !.end_time = message.time] ELSE c2

\* Chunk::add: set_message_number(number + 1), number being message_number()
addNumber(c, number) == [c EXCEPT !.message_number = number + 1]

\* Chunk::add: set_raw_size(raw_size() + message.content().size())
addRawSize(c, message) == [c EXCEPT !.raw_size = @ + message.size]

\* Chunk::add
add(c, message) ==
    LET c1 == addTimes(addBody(c, message), message)
    IN  addRawSize(addNumber(c1, c1.message_number), message)

\* Chunk::clear, one statement (the two times together)
clearStep(c, pc) ==
    CASE pc = "body_" -> [c EXCEPT !.body_ = <<>>]
      [] pc = "time" -> [c EXCEPT !.begin_time = 0, !.end_time = 0]
      [] pc = "message_number" -> [c EXCEPT !.message_number = 0]
      [] pc = "raw_size" -> [c EXCEPT !.raw_size = 0]

\* clear without set_message_number(0)
clear_KeepNumber(c) ==
    clearStep(clearStep(clearStep(c, "body_"), "time"), "raw_size")

\* Chunk::clear
clear(c) ==
    clearStep(clearStep(clearStep(clearStep(c, "body_"), "time"), "message_number"), "raw_size")

\* Chunk::empty
empty(c) == c.message_number = 0

RecordInit == CdrIdle /\ SegmentIdle /\ RecordIdle

\* one thread calls add(message)
ChunkAdd ==
    /\ chunk.calls < MaxChunkCalls
    /\ \E message \in Messages :
        chunk' = [add(chunk, message) EXCEPT !.added = @ + 1, !.calls = @ + 1]
    /\ threads' = [threads EXCEPT ![1].out = <<>>]
    /\ UNCHANGED <<writer, cdrVars, shmVars>>

\* one thread calls clear()
ChunkClear ==
    /\ chunk.calls < MaxChunkCalls
    /\ chunk' = [clear(chunk) EXCEPT !.added = 0, !.calls = @ + 1]
    /\ threads' = [threads EXCEPT ![1].out = <<>>]
    /\ UNCHANGED <<writer, cdrVars, shmVars>>

\* one thread calls empty()
ChunkEmpty ==
    /\ chunk.calls < MaxChunkCalls
    /\ chunk' = [chunk EXCEPT !.calls = @ + 1]
    /\ threads' = [threads EXCEPT ![1].out = <<empty(chunk)>>]
    /\ UNCHANGED <<writer, cdrVars, shmVars>>

ChunkNext == ChunkAdd \/ ChunkClear \/ ChunkEmpty

SpecChunk == RecordInit /\ [][ChunkNext]_vars

\* a thread enters add(message): it takes mutex_
ThreadAdd(t) ==
    /\ threads[t].pc = "idle"
    /\ chunk.calls < MaxThreadCalls
    /\ chunk.mutex_ = 0
    /\ \E message \in Messages :
        threads' = [threads EXCEPT ![t] = [NoThread EXCEPT !.pc = "body_",
                                                          !.message = <<message>>]]
    /\ chunk' = [chunk EXCEPT !.mutex_ = t, !.calls = @ + 1]
    /\ UNCHANGED <<writer, cdrVars, shmVars>>

\* the next statement of add(); the last one releases mutex_
ThreadAddStep(t) ==
    LET message == threads[t].message[1]
        pc == threads[t].pc
    IN  /\ pc \in {"body_", "time", "message_number", "set_message_number", "raw_size"}
        /\ threads[t].message # <<>>
        /\ CASE pc = "body_" ->
                    /\ chunk' = addBody(chunk, message)
                    /\ threads' = [threads EXCEPT ![t].pc = "time"]
             [] pc = "time" ->
                    /\ chunk' = addTimes(chunk, message)
                    /\ threads' = [threads EXCEPT ![t].pc = "message_number"]
             [] pc = "message_number" ->
                    /\ chunk' = chunk
                    /\ threads' = [threads EXCEPT ![t].pc = "set_message_number",
                                                  ![t].number = chunk.message_number]
             [] pc = "set_message_number" ->
                    /\ chunk' = addNumber(chunk, threads[t].number)
                    /\ threads' = [threads EXCEPT ![t].pc = "raw_size"]
             [] pc = "raw_size" ->
                    /\ chunk' = [addRawSize(chunk, message) EXCEPT !.mutex_ = 0,
                                                                   !.added = @ + 1]
                    /\ threads' = [threads EXCEPT ![t] = NoThread]
        /\ UNCHANGED <<writer, cdrVars, shmVars>>

\* a thread enters clear(), which takes no lock: "body_.reset(...)"
ThreadClear(t) ==
    /\ threads[t].pc = "idle"
    /\ chunk.calls < MaxThreadCalls
    /\ chunk' = [clearStep(chunk, "body_") EXCEPT !.calls = @ + 1]
    /\ threads' = [threads EXCEPT ![t] = [NoThread EXCEPT !.pc = "clear time"]]
    /\ UNCHANGED <<writer, cdrVars, shmVars>>

\* the next statement of clear(); added counts from its return
ThreadClearStep(t) ==
    LET pc == threads[t].pc
    IN  /\ pc \in {"clear time", "clear message_number", "clear raw_size"}
        /\ threads[t].message = <<>>
        /\ CASE pc = "clear time" ->
                    /\ chunk' = clearStep(chunk, "time")
                    /\ threads' = [threads EXCEPT ![t].pc = "clear message_number"]
             [] pc = "clear message_number" ->
                    /\ chunk' = clearStep(chunk, "message_number")
                    /\ threads' = [threads EXCEPT ![t].pc = "clear raw_size"]
             [] pc = "clear raw_size" ->
                    /\ chunk' = [clearStep(chunk, "raw_size") EXCEPT !.added = 0]
                    /\ threads' = [threads EXCEPT ![t] = NoThread]
        /\ UNCHANGED <<writer, cdrVars, shmVars>>

\* a thread calls empty(), which takes no lock
ThreadEmpty(t) ==
    /\ threads[t].pc = "idle"
    /\ chunk.calls < MaxThreadCalls
    /\ chunk' = [chunk EXCEPT !.calls = @ + 1]
    /\ threads' = [threads EXCEPT ![t] = [NoThread EXCEPT !.out = <<empty(chunk)>>]]
    /\ UNCHANGED <<writer, cdrVars, shmVars>>

ThreadsNext ==
    \E t \in Threads :
        \/ ThreadAdd(t)
        \/ ThreadAddStep(t)
        \/ ThreadClear(t)
        \/ ThreadClearStep(t)
        \/ ThreadEmpty(t)

SpecChunkThreads == RecordInit /\ [][ThreadsNext]_vars

(***************************************************************************)
(* RecordFileWriter::WriteSection.  The file is its offset; each write is  *)
(* given the count the system returns for it (-1, a short count, or all).  *)
(***************************************************************************)
MaxSections == 2

\* sizeof(section) and HEADER_LENGTH
sizeof_section == 16
HEADER_LENGTH == 2048

SectionTypes == {"ChunkHeader", "ChunkBody", "Channel", "Header", "Index", "other"}
ByteSizes == {0, 5}

\* the counts a write of n bytes may return
Counts_(n) == {-1, n} \cup (IF n > 1 THEN {1} ELSE {})

\* WriteSection<T>(message), message.ByteSizeLong() given; seek: SetPosition(0)
\* succeeds; count, output, padding: what the three writes put into the file
WriteSection(w, T, ByteSizeLong, seek, count, output, padding) ==
    LET w0 == [w EXCEPT !.T = T, !.ByteSizeLong = ByteSizeLong, !.pre = w.size,
                        !.section = 0, !.message = 0, !.blank = 0, !.calls = @ + 1]
        w1 == IF T = "Header" THEN [w0 EXCEPT !.position = 0] ELSE w0
        w2 == [w1 EXCEPT !.position = @ + Max(count, 0), !.section = Max(count, 0)]
        w3 == [w2 EXCEPT !.position = @ + output, !.message = output]
        w4 == [w3 EXCEPT !.position = @ + Max(padding, 0), !.blank = Max(padding, 0)]
    IN  IF T = "other" THEN [w0 EXCEPT !.ret = <<FALSE>>]
        ELSE IF T = "Header" /\ ~seek THEN [w0 EXCEPT !.ret = <<FALSE>>]
        ELSE IF count < 0 \/ count # sizeof_section THEN [w2 EXCEPT !.ret = <<FALSE>>]
        ELSE IF T = "Header"
             THEN IF padding < 0 \/ padding # HEADER_LENGTH - ByteSizeLong
                  THEN [w4 EXCEPT !.ret = <<FALSE>>]
                  ELSE [w4 EXCEPT !.size = w4.position, !.ret = <<TRUE>>]
             ELSE [w3 EXCEPT !.size = w3.position, !.ret = <<TRUE>>]

\* a section is written
WriteSectionCall ==
    /\ writer.calls < MaxSections
    /\ \E T \in SectionTypes, ByteSizeLong \in ByteSizes, seek \in BOOLEAN :
        \E count \in Counts_(sizeof_section), output \in {0, ByteSizeLong},
           padding \in Counts_(HEADER_LENGTH - ByteSizeLong) :
            writer' = WriteSection(writer, T, ByteSizeLong, seek, count, output, padding)
    /\ UNCHANGED <<chunk, threads, cdrVars, shmVars>>

WriterNext == WriteSectionCall

SpecWriter == RecordInit /\ [][WriterNext]_vars

(***************************************************************************)
(* Properties.                                                             *)
(***************************************************************************)
Called == call.op # "new"
Primitive == call.t \in PrimTypes \cup {"char", "bool"}
SameState == StateOf(cdr) = StateOf(call.pre)
HostOrder(endianness) == endianness = DEFAULT_ENDIAN
Min(a, b) == IF a <= b THEN a ELSE b

\* C1: a primitive serialize or deserialize in the form without an
\* Endianness argument that ends in NotEnoughMemory leaves m_currentPosition,
\* m_alignPosition, m_swapBytes and m_lastDataSize as they were before the call.
C1_PrimitiveFailureKeepsState ==
    (/\ Called
     /\ call.op \in {"serialize", "deserialize"}
     /\ Primitive
     /\ call.bo = <<>>
     /\ call.ex = "NotEnoughMemory")
        => SameState

\* C1 happens: an 8-byte value is serialized with 4 bytes left in a buffer
\* that refuses to grow.
C1_Witness ==
    /\ Called
    /\ call.op = "serialize"
    /\ call.t = "int64"
    /\ call.bo = <<>>
    /\ call.ex = "NotEnoughMemory"
    /\ cdr.m_lastPosition - cdr.m_currentPosition = 4
    /\ cdr.m_lastDataSize # 8

\* C2: deserialize(bool&) that raises BadParam leaves the four state fields
\* as they were before the call.
C2_BoolBadParamKeepsState ==
    (Called /\ call.op = "deserialize" /\ call.t = "bool" /\ call.ex = "BadParam")
        => SameState

\* C3: read_encapsulation that raises leaves the four state fields equal to
\* the snapshot taken on entry.
C3_ReadEncapsulationFailureKeepsState ==
    (Called /\ call.op = "read_encapsulation" /\ call.ex # "none") => SameState

\* C4: between calls m_swapBytes is true exactly when m_endianness is not
\* the host's byte order.
C4_SwapIffNotHostOrder ==
    cdr.m_swapBytes = ~HostOrder(cdr.m_endianness)

\* C5 as stated: between calls 0 <= m_alignPosition <= m_currentPosition <=
\* capacity.
C5_AnchorCursorCapacity ==
    /\ 0 <= cdr.m_alignPosition
    /\ cdr.m_alignPosition <= cdr.m_currentPosition
    /\ cdr.m_currentPosition <= Len(cdrBuffer.mem)

\* C5 amended: between calls m_alignPosition and m_currentPosition both lie
\* between 0 and the capacity, and m_lastPosition is the capacity.
C5_WithinCapacity ==
    /\ 0 <= cdr.m_alignPosition
    /\ cdr.m_alignPosition <= Len(cdrBuffer.mem)
    /\ 0 <= cdr.m_currentPosition
    /\ cdr.m_currentPosition <= Len(cdrBuffer.mem)
    /\ cdr.m_lastPosition = Len(cdrBuffer.mem)

\* C5 happens: moveAlignmentForward returned true and the anchor is past the
\* cursor.
C5_Witness ==
    /\ Called
    /\ call.op = "moveAlignmentForward"
    /\ call.out = <<TRUE>>
    /\ cdr.m_alignPosition > cdr.m_currentPosition

SerializeOps == {"serialize", "serializeN", "serializeArray"}

\* the call wrote at least one value (an array call with no elements writes
\* nothing)
WroteSomething == ~(call.op = "serializeArray" /\ call.arg = 0)

\* C6 as stated: after every successful serialize call
\* (m_currentPosition - m_alignPosition) mod m_lastDataSize = 0.
C6_AlignedToLastDataSize ==
    (/\ Called
     /\ call.op \in SerializeOps
     /\ call.ex = "none"
     /\ cdr.m_lastDataSize # 0)
        => (cdr.m_currentPosition - cdr.m_alignPosition) % cdr.m_lastDataSize = 0

\* C6 amended: after every successful serialize call that wrote at least one
\* value, (m_currentPosition - m_alignPosition) mod min(m_lastDataSize, 8) = 0.
C6_AlignedToAlignment ==
    (/\ Called
     /\ call.op \in SerializeOps
     /\ call.ex = "none"
     /\ WroteSomething)
        => /\ cdr.m_lastDataSize \in {1, 2, 4, 8, 16}
           /\ (cdr.m_currentPosition - cdr.m_alignPosition)
                  % Min(cdr.m_lastDataSize, ALIGNMENT_LONG_DOUBLE) = 0

\* C6 happens: a long double was serialized 8 bytes after the anchor, and so
\* ends 24 bytes after it.
C6_Witness ==
    /\ Called
    /\ call.op = "serialize"
    /\ call.t = "ldouble"
    /\ call.ex = "none"
    /\ cdr.m_lastDataSize = 16
    /\ (cdr.m_currentPosition - cdr.m_alignPosition) % 16 = 8

\* C7: a successful serialize or deserialize of a primitive of width w > 1
\* has its first payload byte at an offset from m_alignPosition that is a
\* multiple of min(w, 8), after 0 to 7 bytes of padding from where the cursor
\* was; a value of width 1 gets no padding; a serialized value lies there.
C7_PayloadAligned ==
    (/\ Called
     /\ call.op \in {"serialize", "deserialize"}
     /\ Primitive
     /\ call.ex = "none")
        => LET w == SizeOf(call.t)
           IN  /\ call.start = call.pre.m_currentPosition + call.pad
               /\ call.pad \in 0..7
               /\ (call.start - cdr.m_alignPosition) % Min(w, 8) = 0
               /\ w = 1 => call.pad = 0
               /\ call.op = "serialize" =>
                     /\ cdr.m_currentPosition = call.start + w
                     /\ call.t # "bool" =>
                           ReadAt(cdrBuffer.mem, call.start, w)
                               = IF call.sw THEN Reverse(call.arg) ELSE call.arg

\* C7 happens: a long double was read after padding, the anchor not being
\* at the buffer start.
C7_Witness ==
    /\ Called
    /\ call.op = "deserialize"
    /\ call.t = "ldouble"
    /\ call.ex = "none"
    /\ call.pad > 0
    /\ cdr.m_alignPosition # 0

\* C8: serialize(v, bo) followed by deserialize(x, bo) from the same start
\* over the same bytes gives x = v bit for bit and leaves the cursor where
\* the write ended.
C8_RoundTrip ==
    (written # <<>> /\ call.op = "deserialize")
        => /\ call.ex = "none"
           /\ call.out = written[1].v
           /\ cdr.m_currentPosition = written[1].end

\* C9: a call in the form with an Endianness argument, returning or raising,
\* leaves m_swapBytes, m_endianness, m_plFlag, m_options and m_alignPosition
\* as they were.
C9_OverrideKeepsFields ==
    (Called /\ call.bo # <<>>)
        => /\ cdr.m_swapBytes = call.pre.m_swapBytes
           /\ cdr.m_endianness = call.pre.m_endianness
           /\ cdr.m_plFlag = call.pre.m_plFlag
           /\ cdr.m_options = call.pre.m_options
           /\ cdr.m_alignPosition = call.pre.m_alignPosition

\* C9 happens: a call with an Endianness argument raised while m_swapBytes
\* was flipped for it.
C9_Witness ==
    /\ Called
    /\ call.bo # <<>>
    /\ call.ex = "NotEnoughMemory"
    /\ call.sw # call.pre.m_swapBytes

\* C10: during a call with Endianness argument bo, m_swapBytes is true
\* exactly when bo is not the host's byte order; a primitive serialized with
\* such a call lies in the buffer in byte order bo.
C10_OverrideSwapIffNotHostOrder ==
    (Called /\ call.bo # <<>>)
        => /\ call.sw = ~HostOrder(call.bo[1])
           /\ (call.op = "serialize" /\ call.t \in PrimTypes /\ call.ex = "none") =>
                 ReadAt(cdrBuffer.mem, call.start, SizeOf(call.t))
                     = IF HostOrder(call.bo[1]) THEN call.arg ELSE Reverse(call.arg)

\* C11: a stream written by serialize_encapsulation and primitive writes is
\* accepted by read_encapsulation on a new object of the same type over the
\* same bytes, whatever the writer's endianness, flag and options and the
\* reader's initial endianness, and each matching read then hands back the
\* value that was written.
C11_EncapsulationRoundTrip ==
    /\ (call.op = "read_encapsulation" => call.ex = "none")
    /\ (call.op = "deserialize" => (call.ex = "none" /\ call.out = call.arg))

EncapsulationWritten == call.op = "serialize_encapsulation" /\ call.ex = "none"
EncapsulationRead == call.op = "read_encapsulation" /\ call.ex = "none"

C13_HeaderBytes ==
    EncapsulationWritten =>
        LET p == call.pre.m_currentPosition
            end == cdr.m_currentPosition
            mem == cdrBuffer.mem
            kind == call.pre.m_plFlag
                        + (IF call.pre.m_endianness = LITTLE_ENDIANNESS THEN 1 ELSE 0)
            options == ToBytes(call.pre.m_options, 2)
        IN  IF cdr.m_cdrType = "DDS_CDR"
            THEN /\ mem[p + 1] = 0
                 /\ mem[p + 2] = kind
                 /\ <<mem[end - 1], mem[end]>>
                        = IF call.pre.m_endianness = LITTLE_ENDIANNESS
                          THEN options ELSE Reverse(options)
            ELSE /\ mem[p + 1] = kind
                 /\ end = p + 1

\* C14: after a successful serialize_encapsulation or read_encapsulation
\* m_alignPosition equals m_currentPosition, so a primitive of any width
\* that follows needs no padding.
C14_AnchorAtCursor ==
    (EncapsulationWritten \/ EncapsulationRead) =>
        /\ cdr.m_alignPosition = cdr.m_currentPosition
        /\ \A t \in PrimTypes : alignment(cdr, AlignOf(t)) = 0

\* an encapsulation read successfully by an object whose m_alignPosition
\* was not at m_currentPosition before
C14_Witness ==
    /\ EncapsulationRead
    /\ call.pre.m_alignPosition # call.pre.m_currentPosition
    /\ cdr.m_currentPosition > 0

ArrayOps == {"serializeArray", "deserializeArray"}
StringCall == call.t = "string" /\ call.op \in {"serialize", "serializeN", "deserialize", "readString"}
\* bytes of payload a string call transferred after the 32-bit length
StringPayload == cdr.m_currentPosition - call.start - 4

\* C15: serializeArray and deserializeArray with numElements = 0 leave
\* m_currentPosition, m_alignPosition and m_lastDataSize unchanged, for
\* every element type.
C15_EmptyArrayNoOp ==
    (call.op \in ArrayOps /\ call.arg = 0) =>
        /\ call.ex = "none"
        /\ cdr.m_currentPosition = call.pre.m_currentPosition
        /\ cdr.m_alignPosition = call.pre.m_alignPosition
        /\ cdr.m_lastDataSize = call.pre.m_lastDataSize

\* C16: deserializeArray(bool*, numElements) does not return normally when
\* one of the numElements bytes it reads is neither 0 nor 1.
C16_BoolArrayBadParam ==
    (/\ call.op = "deserializeArray"
     /\ call.t = "bool"
     /\ call.pre.m_lastPosition - call.pre.m_currentPosition >= call.arg
     /\ \E i \in 1..call.arg :
            call.preBuf.mem[call.pre.m_currentPosition + i] \notin {0, 1, Indet})
        => call.ex = "BadParam"

\* C17: serialize(const char*) of a string of n characters writes, 4-aligned,
\* the 32-bit length n + 1 and then the n characters and a 0 byte, advancing
\* m_currentPosition by padding + 4 + n + 1; for a null pointer it writes
\* the 32-bit length 0 only.
C17_StringWire ==
    (call.op = "serialize" /\ call.t = "string" /\ call.ex = "none") =>
        LET n == Len(call.arg.chars)
            length == IF call.arg.isNull THEN 0 ELSE n + 1
            p == call.start
            field == ReadAt(cdrBuffer.mem, p, 4)
        IN  /\ (p - cdr.m_alignPosition) % 4 = 0
            /\ p = call.pre.m_currentPosition + call.pad
            /\ call.pad \in 0..3
            /\ (IF call.sw THEN Reverse(field) ELSE field) = ToBytes(length, 4)
            /\ cdr.m_currentPosition = p + 4 + length
            /\ ~call.arg.isNull =>
                   ReadAt(cdrBuffer.mem, p + 4, length) = call.arg.chars \o <<0>>

\* a string written after padding
C17_Witness ==
    /\ call.op = "serialize" /\ call.t = "string" /\ call.ex = "none"
    /\ ~call.arg.isNull
    /\ call.pad > 0

\* C18: after every successful string call (serialize(const char*), the form
\* with a length, deserialize(char*&), readString), the null pointer and
\* the stored length 0 included, m_lastDataSize is 1.
C18_StringLastDataSizeOne ==
    (StringCall /\ call.ex = "none") => cdr.m_lastDataSize = 1

\* C18, as the code has it: a successful string call that transferred
\* payload bytes leaves m_lastDataSize = 1; one whose length is 0 (null
\* pointer written, stored length 0 read) leaves m_lastDataSize = 4, the
\* size of the length field.
C18_StringLastDataSize ==
    (StringCall /\ call.ex = "none") =>
        cdr.m_lastDataSize = IF StringPayload > 0 THEN 1 ELSE 4

\* a stored length 0 read by deserialize(char*&)
C18_Witness ==
    /\ StringCall /\ call.ex = "none"
    /\ call.op = "deserialize"
    /\ StringPayload = 0
    /\ cdr.m_lastDataSize = 4

\* C19: readString over a stored length L > 0 with at least L bytes after
\* the length field advances m_currentPosition by L past the field, hands
\* back the position of the first payload byte and reports L - 1 when the
\* last payload byte is 0 and L otherwise; for L = 0 it reports 0 and
\* consumes the length field only.
C19_ReadString ==
    (/\ call.op = "readString"
     /\ cdr.m_lastPosition - (call.pre.m_currentPosition + alignment(call.pre, 4)) >= 4)
        => \E f \in FillBytes :
            LET mem == Settle(call.preBuf.mem, f)
                p == call.pre.m_currentPosition + alignment(call.pre, 4)
                field == ReadAt(mem, p, 4)
                L == FromBytes(IF call.pre.m_swapBytes THEN Reverse(field) ELSE field)
            IN  IF L = 0
                THEN /\ call.ex = "none"
                     /\ cdr.m_currentPosition = p + 4
                     /\ call.out.length = 0
                ELSE (cdr.m_lastPosition - (p + 4) >= L) =>
                     /\ call.ex = "none"
                     /\ cdr.m_currentPosition = p + 4 + L
                     /\ call.out.ptr = p + 4
                     /\ call.out.length = IF mem[p + 4 + L] = 0 THEN L - 1 ELSE L

\* a string without a terminator read by readString: the length reported is
\* the stored length
C19_Witness ==
    /\ call.op = "readString" /\ call.ex = "none"
    /\ call.out.length > 0
    /\ call.out.length = StringPayload

\* C20: a string serialize refused a grow at the payload step, or a string
\* deserialize or readString finding fewer bytes than the stored length,
\* raises NotEnoughMemory and leaves m_currentPosition, m_alignPosition,
\* m_swapBytes and m_lastDataSize as they were before the call.
C20_StringFailureKeepsState ==
    (StringCall /\ call.ex = "NotEnoughMemory") => SameState

\* a string serialize that had room for the length field and failed at
\* the payload
C20_Witness ==
    /\ StringCall /\ call.ex = "NotEnoughMemory"
    /\ call.op = "serialize"
    /\ cdr.m_lastPosition - (call.pre.m_currentPosition + alignment(call.pre, 4)) >= 4

ReadOps ==
    {"deserialize", "deserializeArray", "readString", "deserializeBoolSequence",
     "deserializeStringSequence", "read_encapsulation"}

\* C21: no deserialize call (primitive, array, string, readString, bool
\* sequence, string sequence, read_encapsulation) grows the buffer: its size
\* and m_lastPosition are after the call what they were before it, whether
\* the call returned or raised.
C21_DeserializeNeverGrows ==
    call.op \in ReadOps =>
        /\ Len(cdrBuffer.mem) = Len(call.preBuf.mem)
        /\ cdr.m_lastPosition = call.pre.m_lastPosition

\* a deserialize call that ran out of bytes on a buffer that could have grown
C21_Witness ==
    /\ call.op \in ReadOps
    /\ call.ex = "NotEnoughMemory"
    /\ cdrBuffer.internal
    /\ Len(cdrBuffer.mem) < cdrBuffer.avail

\* C22: a successful serialize or deserialize of a long double advances
\* m_currentPosition by padding + 16 whatever m_swapBytes is, and the array
\* forms by padding + 16 * numElements.
C22_LongDoubleAdvance ==
    (call.t = "ldouble" /\ call.ex = "none") =>
        /\ call.op \in {"serialize", "deserialize"} =>
               cdr.m_currentPosition = call.pre.m_currentPosition + call.pad + 16
        /\ call.op \in ArrayOps =>
               cdr.m_currentPosition = call.pre.m_currentPosition + call.pad + 16 * call.arg

\* C23: jump(numBytes) returns true exactly when numBytes bytes remain after
\* m_currentPosition or the buffer grows; then m_currentPosition has grown by
\* numBytes and m_alignPosition, m_swapBytes and m_lastDataSize are unchanged;
\* when it returns false no field has changed.
C23_Jump ==
    call.op = "jump" =>
        LET numBytes == call.arg
            enough == call.pre.m_lastPosition - call.pre.m_currentPosition >= numBytes
            grows == BufferResize(call.preBuf, numBytes).ok
        IN  /\ call.out[1] <=> (enough \/ grows)
            /\ call.out[1] =>
                   /\ cdr.m_currentPosition = call.pre.m_currentPosition + numBytes
                   /\ cdr.m_alignPosition = call.pre.m_alignPosition
                   /\ cdr.m_swapBytes = call.pre.m_swapBytes
                   /\ cdr.m_lastDataSize = call.pre.m_lastDataSize
            /\ ~call.out[1] => cdr = call.pre

\* a jump past the end of a buffer that grew for it
C23_Witness ==
    /\ call.op = "jump"
    /\ call.out[1]
    /\ call.pre.m_currentPosition > 0
    /\ cdr.m_lastPosition > call.pre.m_lastPosition

\* C24: moveAlignmentForward(numBytes) returning true has moved
\* m_alignPosition forward by numBytes, left m_currentPosition, m_swapBytes
\* and m_lastDataSize unchanged and m_alignPosition within the buffer; when it
\* returns false no field has changed.
C24_MoveAlignmentForward ==
    call.op = "moveAlignmentForward" =>
        /\ call.out[1] =>
               /\ cdr.m_alignPosition = call.pre.m_alignPosition + call.arg
               /\ cdr.m_currentPosition = call.pre.m_currentPosition
               /\ cdr.m_swapBytes = call.pre.m_swapBytes
               /\ cdr.m_lastDataSize = call.pre.m_lastDataSize
               /\ cdr.m_alignPosition <= cdr.m_lastPosition
               /\ cdr.m_lastPosition = Len(cdrBuffer.mem)
        /\ ~call.out[1] => cdr = call.pre

\* m_alignPosition moved forward when m_currentPosition was not at the start
C24_Witness ==
    /\ call.op = "moveAlignmentForward"
    /\ call.out[1]
    /\ call.pre.m_currentPosition > 0

\* C25: after reset() m_currentPosition and m_alignPosition are at the start
\* of the buffer and m_swapBytes = (m_endianness is not the host's), also
\* when m_swapBytes disagreed with m_endianness before; m_endianness,
\* m_plFlag, m_options and the buffer are unchanged.
C25_Reset ==
    call.op = "reset" =>
        /\ cdr.m_currentPosition = 0
        /\ cdr.m_alignPosition = 0
        /\ cdr.m_swapBytes = ~HostOrder(cdr.m_endianness)
        /\ cdr.m_endianness = call.pre.m_endianness
        /\ cdr.m_plFlag = call.pre.m_plFlag
        /\ cdr.m_options = call.pre.m_options
        /\ cdr.m_lastPosition = call.pre.m_lastPosition
        /\ cdrBuffer = call.preBuf

\* reset() of an object whose m_swapBytes disagreed with its m_endianness
C25_Witness ==
    /\ call.op = "reset"
    /\ call.pre.m_swapBytes = HostOrder(call.pre.m_endianness)

\* C26: resetAlignment is idempotent: in every state, applied twice it gives
\* the object it gives applied once, with m_alignPosition = m_currentPosition;
\* so after a call of it a second call changes nothing.
C26_ResetAlignmentIdempotent ==
    /\ resetAlignment(resetAlignment(cdr)) = resetAlignment(cdr)
    /\ resetAlignment(cdr).m_alignPosition = cdr.m_currentPosition
    /\ call.op = "resetAlignment" => resetAlignment(cdr) = cdr

\* resetAlignment called when m_alignPosition was not at m_currentPosition
C26_Witness ==
    /\ call.op = "resetAlignment"
    /\ call.pre.m_alignPosition # call.pre.m_currentPosition

\* C27: for 16/32/64-bit integer, float and double arrays of numElements >= 1
\* and an Endianness argument that is not the host's, serializeArray emits
\* the elements of the caller's array, each with its bytes reversed, and
\* deserializeArray stores into the caller's array the elements of the
\* stream, each with its bytes reversed.
C27_SwappedArrayRoundTrip ==
    (/\ call.op \in ArrayOps
     /\ call.t \in PrimTypes \ {"ldouble"}
     /\ call.bo # <<>>
     /\ call.ex = "none"
     /\ call.arg >= 1
     /\ ~HostOrder(call.bo[1]))
        => LET w == SizeOf(call.t)
               n == call.arg
           IN  IF call.op = "serializeArray"
               THEN ReadAt(cdrBuffer.mem, call.start, w * n)
                        = Flatten([i \in 1..n |-> Reverse(ArrayOf(call.t, n)[i])])
               ELSE \E f \in FillBytes :
                        call.out = Flatten([i \in 1..n |->
                            Reverse(ReadAt(Settle(call.preBuf.mem, f),
                                           call.start + w * (i - 1), w))])

\* C28: serializeBoolSequence or deserializeBoolSequence raising, for
\* whatever reason, leaves m_currentPosition, m_alignPosition, m_swapBytes
\* and m_lastDataSize as they were before the call.
C28_BoolSequenceFailureKeepsState ==
    (/\ call.op \in {"serializeBoolSequence", "deserializeBoolSequence"}
     /\ call.ex # "none")
        => SameState

\* C29: serializeArray or deserializeArray over wchar_t raising
\* NotEnoughMemory leaves m_currentPosition, m_alignPosition, m_swapBytes and
\* m_lastDataSize as they were before the call, also when elements had been
\* processed already.
C29_WCharArrayFailureKeepsState ==
    (call.op \in ArrayOps /\ call.t = "wchar" /\ call.ex = "NotEnoughMemory")
        => SameState

C31_PlFlagFromKindByte ==
    (EncapsulationRead /\ cdr.m_cdrType = "DDS_CDR") =>
        \E f \in FillBytes :
            LET encapsulationKind ==
                    Settle(call.preBuf.mem, f)[call.pre.m_currentPosition + 2]
            IN  cdr.m_plFlag = IF (encapsulationKind \div DDS_CDR_WITH_PL) % 2 = 1
                               THEN DDS_CDR_WITH_PL
                               ELSE DDS_CDR_WITHOUT_PL

Returned(p, op, returnedValue) ==
    seg[p].pc = "idle" /\ seg[p].op = op /\ seg[p].ret = <<returnedValue>>

\* C32: when OpenOrCreate has created the shared-memory object of the name
\* and then returns false, the name no longer refers to the object: it has
\* been unlinked.
C32_FailedCreateUnlinks ==
    \A p \in Procs :
        (Returned(p, "OpenOrCreate", FALSE) /\ seg[p].created # 0)
            => shm.name # seg[p].created

\* C33: a process that found the object existing and returns true from the
\* OpenOnly path mapped an object that had its size and read
\* ceiling_msg_size from a State that had been constructed.
C33_OpenerSeesConstructedState ==
    \A p \in Procs :
        (seg[p].pc = "idle" /\ seg[p].ret = <<TRUE>> /\ seg[p].attached)
            => seg[p].st_size = managed_shm_size /\ seg[p].saw

\* C34: after OpenOrCreate or OpenOnly has returned false, managed_shm_,
\* state_ and blocks_ are nullptr, init_ is false and the reference count has
\* not been incremented; a Reset() of a segment that never was initialised
\* calls munmap on nothing.
C34_FailureLeavesNothing ==
    \A p \in Procs :
        /\ (Returned(p, "OpenOrCreate", FALSE) \/ Returned(p, "OpenOnly", FALSE)) =>
               /\ seg[p].managed_shm_ = nullptr
               /\ seg[p].state_ = nullptr
               /\ seg[p].blocks_ = nullptr
               /\ ~seg[p].init_
               /\ seg[p].incs = 0
        /\ (seg[p].op = "Reset" /\ ~seg[p].init_) => seg[p].unmapped = <<>>

\* C35: over any sequence of OpenOrCreate and OpenOnly calls on one segment,
\* IncreaseReferenceCounts is called once, by the first call that returns
\* true; a call on an initialised segment returns true without a system
\* call and leaves the members as they were.
C35_OpenIdempotent ==
    \A p \in Procs :
        /\ seg[p].incs = IF seg[p].init_ THEN 1 ELSE 0
        /\ (seg[p].pc = "idle" /\ seg[p].op \in {"OpenOrCreate", "OpenOnly"}
                /\ seg[p].pre.init_) =>
               /\ seg[p].ret = <<TRUE>>
               /\ ~seg[p].sys
               /\ Members(seg[p]) = seg[p].pre

\* a segment that was initialised by one call and then opened again
C35_Witness ==
    \E p \in Procs :
        /\ Returned(p, "OpenOnly", TRUE)
        /\ seg[p].pre.init_
        /\ seg[p].incs = 1
        /\ seg[p].state_ # nullptr

RECURSIVE MinTime(_), MaxTime(_), RawSize(_)
MinTime(body) ==
    IF Len(body) = 1 THEN body[1].time ELSE Min(body[1].time, MinTime(Tail(body)))
MaxTime(body) ==
    IF Len(body) = 1 THEN body[1].time ELSE Max(body[1].time, MaxTime(Tail(body)))
RawSize(body) == IF body = <<>> THEN 0 ELSE body[1].size + RawSize(Tail(body))

\* C36: after add() calls since construction or the last clear(),
\* begin_time is the least and end_time the greatest of the times of the
\* messages added, the time 0 included.
C36_BeginEndTimes ==
    chunk.body_ # <<>> =>
        /\ chunk.begin_time = MinTime(chunk.body_)
        /\ chunk.end_time = MaxTime(chunk.body_)

\* C37: after any sequence of add() and clear() calls by one thread,
\* message_number is the number of messages in body_, raw_size the sum of
\* their content sizes, and empty() is true exactly when no message has been
\* added since the last clear().
C37_HeaderCountsBody ==
    /\ chunk.message_number = Len(chunk.body_)
    /\ chunk.raw_size = RawSize(chunk.body_)
    /\ empty(chunk) <=> chunk.added = 0
    /\ threads[1].out # <<>> => (threads[1].out[1] <=> chunk.added = 0)

\* messages added, cleared, and a message with content added again
C37_Witness ==
    /\ chunk.calls >= 3
    /\ chunk.added = 1
    /\ chunk.raw_size > 0

\* C38: under any interleaving of add(), clear() and empty() calls of
\* several threads, whenever no call is in progress message_number is the
\* number of messages in body_ and the number of add() calls completed since
\* the last clear().
C38_NoLostUpdate ==
    (\A t \in Threads : threads[t].pc = "idle") =>
        /\ chunk.message_number = Len(chunk.body_)
        /\ chunk.message_number = chunk.added

\* C39: WriteSection returns true only if the section descriptor, the whole
\* serialized message and, for a Header, the padding have been written to
\* the file; when it returns false header_.size is what it was.
C39_WriteSectionAllWritten ==
    /\ writer.ret = <<TRUE>> =>
           /\ writer.section = sizeof_section
           /\ writer.message = writer.ByteSizeLong
           /\ writer.T = "Header" => writer.blank = HEADER_LENGTH - writer.ByteSizeLong
    /\ writer.ret = <<FALSE>> => writer.size = writer.pre

====
